---- MODULE Spec2Model ----
(***************************************************************************)
(* A model of the parallel find / min / max skeletons of                   *)
(* taskflow/algorithm/find.hpp and of the node model of                    *)
(* taskflow/core/graph.hpp.                                                *)
(*                                                                         *)
(* Positions are 0-based indices into the input range; position Len(data)  *)
(* is the iterator `last`.                                                 *)
(***************************************************************************)
EXTENDS Integers, Sequences, FiniteSets, TLC

\* ------------------------------------------------------------------------
\* Bounds of the model
\* ------------------------------------------------------------------------
MaxN == 3
MaxW == 2
MaxChunk == 1
MaxLen == 6

VARIABLES
  algo,          \* which make_*_task closure runs
  ptype,         \* part.type(): "STATIC" or "DYNAMIC"
  csize,         \* part.chunk_size()
  nworkers,      \* rt.executor().num_workers()
  data,          \* the range [first, last)
  pc,            \* position of the Runtime closure
  W,             \* local W of the closure (after the clamp)
  N,             \* local N of the closure
  w,             \* spawn loop counter
  cb,            \* spawn loop curr_b (static partitioner)
  offset,        \* *offset, the shared atomic index of find
  offsetHist,    \* every value offset has held (its modification order)
  shares,        \* use count of the shared_ptr offset
  next,          \* *next, the shared cursor of the dynamic partitioner
  mutex,         \* owner of *mutex (0: free)
  result,        \* the caller's result iterator (NoResult: never written)
  resultWrites,  \* number of assignments to result
  finalizerCalls,\* number of runs of the offset deleter
  preempted,     \* PreemptionGuard installed on the node
  everPreempted, \* the node was marked PREEMPTED at some point
  nAsync,        \* sub-tasks handed to rt.silent_async
  nInline,       \* sub-tasks called inline: task()
  task,          \* the sub-task closures
  cancelled,     \* CANCELLED bit of the owning topology's estate
  visits,        \* per index of [0, N): how often it was handed to a worker
  handle,        \* Node::_handle.index() of every node
  successors,    \* Node::_successors
  dependents,    \* Node::_dependents
  nstate,        \* Node::_nstate
  join_counter,  \* Node::_join_counter
  calls,         \* number of _precede(v) calls made on each node u
  nSetUps,       \* number of _set_up_join_counter calls made
  topology,      \* Node::_topology (0: nullptr, 1: the topology)
  parent,        \* Node::_parent (0: nullptr)
  estate,        \* Node::_estate
  topoEstate,    \* Topology::_estate
  anchors,       \* live AnchorGuard objects on each node
  exception_ptr, \* Node::_exception_ptr (0: nullptr)
  raised,        \* what the last _rethrow_exception call raised (0: nothing)
  nRethrows,     \* number of _rethrow_exception calls made
  nCaptures,     \* number of failures stored into an exception slot
  nRaises,       \* number of failures re-raised by _rethrow_exception
  callers,       \* the threads inside a call of _rethrow_exception
  graph,         \* Graph: the vector of owned nodes
  nAlloc,        \* number of nodes constructed by _emplace_back
  ret,           \* the pointer the last _emplace_back returned (0: none)
  erased         \* the nodes _erase has removed and destroyed

vars == <<algo, ptype, csize, nworkers, data, pc, W, N, w, cb, offset,
          offsetHist, shares, next, mutex, result, resultWrites,
          finalizerCalls, preempted, everPreempted, nAsync, nInline, task,
          cancelled, visits, handle, successors, dependents, nstate, join_counter,
          calls, nSetUps, topology, parent, estate, topoEstate, anchors,
          exception_ptr, raised, nRethrows, nCaptures, nRaises, callers,
          graph, nAlloc, ret, erased>>

\* the state of the node model
graphVars == <<handle, successors, dependents, nstate, join_counter, calls,
               nSetUps>>

\* the state of the parallel algorithms
algoVars == <<algo, ptype, csize, nworkers, data, pc, W, N, w, cb, offset,
              offsetHist, shares, next, mutex, result, resultWrites,
              finalizerCalls, preempted, everPreempted, nAsync, nInline,
              task, cancelled, visits>>

\* the remaining fields of the nodes, and the Graph container
nodeVars == <<topology, parent, estate, topoEstate, anchors, exception_ptr,
              raised, nRethrows, nCaptures, nRaises, callers>>
containerVars == <<graph, nAlloc, ret, erased>>

inputs == <<algo, ptype, csize, nworkers, data, graphVars, nodeVars,
            containerVars>>

Tasks == 1..MaxW
FindAlgos == {"find_if", "find_if_not"}
MinMaxAlgos == {"min_element", "max_element"}
IsFind == algo \in FindAlgos
IsMinMax == algo \in MinMaxAlgos
NoResult == 0 - 1

Min(a, b) == IF a < b THEN a ELSE b
Max(a, b) == IF a > b THEN a ELSE b

\* *it for the iterator standing at position i
Elem(i) == data[i + 1]

\* the user predicate of find_if / find_if_not
predicate(v) == v = 1

\* (mutant) find_if_not testing like find_if
TestFindIfNotPlain(v) == predicate(v)

\* the condition under which the chunk loop reports position x
TestFindIfNot(v) == ~predicate(v)
TestFindIf(v) == predicate(v)
Matches(v) == IF algo = "find_if" THEN TestFindIf(v) ELSE TestFindIfNot(v)

\* std::find_if / std::find_if_not over [0, n): first position whose element
\* passes the test, else n
RECURSIVE StdFind(_, _)
StdFind(i, n) ==
  IF i >= n THEN n
  ELSE IF Matches(Elem(i)) THEN i
  ELSE StdFind(i + 1, n)

\* the for loop of find_if_loop: x runs over [b, e) while the iterator,
\* standing at position it, is tested and incremented; the first x whose
\* element passes the test, or e when there is none
RECURSIVE ScanChunk(_, _, _)
ScanChunk(it, b, e) ==
  IF b >= e THEN e
  ELSE IF Matches(Elem(it)) THEN b
  ELSE ScanChunk(it + 1, b + 1, e)

\* StaticPartitioner::adjusted_chunk_size(N, W, w)
adjusted_chunk_size(n, nw, k) ==
  IF csize # 0 THEN csize
  ELSE (n \div nw) + (IF k < n % nw THEN 1 ELSE 0)

\* DynamicPartitioner: the chunk claimed by one fetch_add
DynChunk == IF csize = 0 THEN 1 ELSE csize

\* Partitioner::loop / loop_until: the end of the chunk that begins at b
ChunkEnd(b, cs) == Min(b + cs, N)

\* StaticPartitioner::loop / loop_until: the begin of the worker's next chunk
StaticNext(b, cs) == b + W * cs

\* the loop variable x of find_if_loop before any hit
NoIndex == 0 - 1

NoTask ==
  [pc |-> "none", curr_b |-> 0, cs |-> 0, prev_e |-> 0, beg |-> 0,
   x |-> NoIndex, prev |-> 0, view |-> 0, best |-> 0, bodies |-> 0,
   late |-> 0, stale |-> 0, pruned |-> 0, first |-> 0, merges |-> 0]

\* visits after the indices of [b, e) were handed to a worker once more
Visit(b, e) ==
  [i \in DOMAIN visits |-> IF b <= i /\ i < e THEN visits[i] + 1 ELSE visits[i]]

\* ------------------------------------------------------------------------
\* Initial states
\* ------------------------------------------------------------------------
\* the ranges of min_element / max_element: every range of up to MaxN + 1
\* elements over three values (a strict order with ties) and, for the
\* static partitioner, whose workers come back for a second chunk only on
\* longer ranges, every range of up to MaxLen elements over two values
ShortRanges == UNION {[1..n -> {0, 1, 2}] : n \in 0..(MaxN + 1)}

Ranges == ShortRanges \cup UNION {[1..n -> {0, 1}] : n \in 0..MaxLen}

\* for find only the predicate's verdict on each element matters
FindRanges == UNION {[1..n -> {0, 1}] : n \in 0..MaxN}

\* the closure before it runs
InitCommon ==
  /\ pc = "start"
  /\ W = 0 /\ N = 0 /\ w = 0 /\ cb = 0
  /\ offset = 0 /\ offsetHist = {} /\ shares = 0 /\ next = 0 /\ mutex = 0
  /\ result = NoResult /\ resultWrites = 0 /\ finalizerCalls = 0
  /\ preempted = FALSE /\ everPreempted = FALSE
  /\ nAsync = 0 /\ nInline = 0
  /\ task = [t \in Tasks |-> NoTask]
  /\ cancelled = FALSE
  /\ visits = [i \in 0..(Len(data) - 1) |-> 0]

InitAlgo ==
  /\ algo \in FindAlgos \cup MinMaxAlgos
  /\ ptype \in {"STATIC", "DYNAMIC"}
  /\ csize \in 0..MaxChunk
  /\ nworkers \in 1..MaxW
  /\ data \in (IF IsFind THEN FindRanges
               ELSE IF ptype = "STATIC" THEN Ranges ELSE ShortRanges)
  /\ InitCommon

\* no algorithm under way (the node model is checked on its own)
InitAlgoIdle ==
  /\ algo = "find_if" /\ ptype = "STATIC" /\ csize = 0 /\ nworkers = 1
  /\ data = <<>>
  /\ InitCommon

\* ------------------------------------------------------------------------
\* make_find_if_task / make_find_if_not_task: the Runtime closure
\* ------------------------------------------------------------------------

\* (mutant) N < part.chunk_size() for N <= part.chunk_size()
SerialCondStrict == nworkers <= 1 \/ Len(data) < csize

\* W <= 1 || N <= part.chunk_size(): the serial algorithm runs inline
SerialCond == nworkers <= 1 \/ Len(data) <= csize

FindSerial ==
  /\ pc = "start"
  /\ SerialCond
  /\ result' = StdFind(0, Len(data))
  /\ resultWrites' = resultWrites + 1
  /\ W' = nworkers
  /\ N' = Len(data)
  /\ pc' = "done"
  /\ UNCHANGED <<inputs, visits, w, cb, offset, offsetHist, shares, next, mutex,
                 finalizerCalls, preempted, everPreempted, nAsync, nInline,
                 task, cancelled>>

\* PreemptionGuard, the clamp of W, the shared offset and (dynamic) cursor
FindParallel ==
  /\ pc = "start"
  /\ ~SerialCond
  /\ preempted' = TRUE
  /\ everPreempted' = TRUE
  /\ N' = Len(data)
  /\ W' = IF Len(data) < nworkers THEN Len(data) ELSE nworkers
  /\ offset' = Len(data)
  /\ offsetHist' = {Len(data)}
  /\ shares' = 1
  /\ next' = 0
  /\ w' = 0
  /\ cb' = 0
  /\ pc' = "spawn"
  /\ UNCHANGED <<inputs, visits, mutex, result, resultWrites, finalizerCalls, nAsync,
                 nInline, task, cancelled>>

\* (mutant) inline only for the W-th sub-task: ++w == W
RunsInlineLastOnly(chunk) == w + 1 = W

\* one iteration of the static spawn loop: builds the task of worker w and
\* either calls it inline or hands it to silent_async
RunsInlineStatic(chunk) == w + 1 = W \/ cb + chunk >= N

\* (mutant) the task lambda capturing offset by reference: no share of its
\* own
FindSpawnStaticByRef ==
  /\ pc = "spawn"
  /\ ptype = "STATIC"
  /\ w < W /\ cb < N
  /\ LET chunk == adjusted_chunk_size(N, W, w)
         inl == RunsInlineStatic(chunk)
     IN /\ task' = [task EXCEPT ![w + 1] =
                      [NoTask EXCEPT !.pc = "run", !.curr_b = cb,
                                     !.first = cb, !.cs = chunk,
                                     !.view = N]]
        /\ w' = w + 1
        /\ cb' = IF w + 1 = W THEN cb ELSE cb + chunk
        /\ nInline' = IF inl THEN nInline + 1 ELSE nInline
        /\ nAsync' = IF inl THEN nAsync ELSE nAsync + 1
        /\ pc' = IF inl THEN "inline" ELSE "spawn"
  /\ UNCHANGED <<inputs, visits, W, N, offset, offsetHist, shares, next,
                 mutex, result, resultWrites, finalizerCalls, preempted,
                 everPreempted, cancelled>>

FindSpawnStatic ==
  /\ pc = "spawn"
  /\ ptype = "STATIC"
  /\ w < W /\ cb < N
  /\ LET chunk == adjusted_chunk_size(N, W, w)
         inl == RunsInlineStatic(chunk)
     IN /\ task' = [task EXCEPT ![w + 1] =
                      [NoTask EXCEPT !.pc = "run", !.curr_b = cb,
                                     !.first = cb, !.cs = chunk,
                                     !.view = N]]
        /\ shares' = shares + 1
        /\ w' = w + 1
        /\ cb' = IF w + 1 = W THEN cb ELSE cb + chunk
        /\ nInline' = IF inl THEN nInline + 1 ELSE nInline
        /\ nAsync' = IF inl THEN nAsync ELSE nAsync + 1
        /\ pc' = IF inl THEN "inline" ELSE "spawn"
  /\ UNCHANGED <<inputs, visits, W, N, offset, offsetHist, next, mutex, result,
                 resultWrites, finalizerCalls, preempted, everPreempted,
                 cancelled>>

\* one iteration of the dynamic spawn loop
FindSpawnDynamic ==
  /\ pc = "spawn"
  /\ ptype = "DYNAMIC"
  /\ w < W
  /\ LET inl == w + 1 = W
     IN /\ task' = [task EXCEPT ![w + 1] =
                      [NoTask EXCEPT !.pc = "claim", !.cs = DynChunk,
                                     !.view = N]]
        /\ shares' = shares + 1
        /\ w' = w + 1
        /\ nInline' = IF inl THEN nInline + 1 ELSE nInline
        /\ nAsync' = IF inl THEN nAsync ELSE nAsync + 1
        /\ pc' = IF inl THEN "inline" ELSE "spawn"
  /\ UNCHANGED <<inputs, visits, W, N, cb, offset, offsetHist, next, mutex, result,
                 resultWrites, finalizerCalls, preempted, everPreempted,
                 cancelled>>

\* ------------------------------------------------------------------------
\* detail::find_if_loop / find_if_not_loop, called on chunk [b, e) by task t
\* after its relaxed load of offset returned v
\* ------------------------------------------------------------------------
Late(t) == IF cancelled THEN Min(task[t].late + 1, 2) ELSE task[t].late

\* task t has scanned a chunk beginning at b that the current value of
\* offset would have pruned (its relaxed load returned an older value)
Stale(t, b) == IF offset < b THEN 1 ELSE task[t].stale

\* (mutant) the early prune with its comparison flipped
find_if_loop_flipped(t, v, b, e) ==
  IF v > b
  THEN [task[t] EXCEPT !.pc = "reset", !.view = v, !.pruned = 1]
  ELSE LET it == task[t].beg + (b - task[t].prev_e)
           hit == ScanChunk(it, b, e)
       IN IF hit < e
          THEN [task[t] EXCEPT !.pc = "amin_load", !.x = hit, !.view = v,
                               !.beg = it + (hit - b) + 1, !.bodies = @ + 1,
                               !.late = Late(t), !.stale = Stale(t, b)]
          ELSE [task[t] EXCEPT !.prev_e = e, !.beg = it + (e - b),
                               !.view = v, !.bodies = @ + 1,
                               !.late = Late(t), !.stale = Stale(t, b)]

\* (mutant) the index after the hit handed to atomic_min
find_if_loop_next_index(t, v, b, e) ==
  IF v < b
  THEN [task[t] EXCEPT !.pc = "reset", !.view = v, !.pruned = 1]
  ELSE LET it == task[t].beg + (b - task[t].prev_e)
           hit == ScanChunk(it, b, e)
       IN IF hit < e
          THEN [task[t] EXCEPT !.pc = "amin_load", !.x = hit + 1, !.view = v,
                               !.beg = it + (hit - b) + 1, !.bodies = @ + 1,
                               !.late = Late(t), !.stale = Stale(t, b)]
          ELSE [task[t] EXCEPT !.prev_e = e, !.beg = it + (e - b),
                               !.view = v, !.bodies = @ + 1,
                               !.late = Late(t), !.stale = Stale(t, b)]

find_if_loop(t, v, b, e) ==
  IF v < b
  THEN [task[t] EXCEPT !.pc = "reset", !.view = v, !.pruned = 1]
  ELSE LET it == task[t].beg + (b - task[t].prev_e)
           hit == ScanChunk(it, b, e)
       IN IF hit < e
          THEN [task[t] EXCEPT !.pc = "amin_load", !.x = hit, !.view = v,
                               !.beg = it + (hit - b) + 1, !.bodies = @ + 1,
                               !.late = Late(t), !.stale = Stale(t, b)]
          ELSE [task[t] EXCEPT !.prev_e = e, !.beg = it + (e - b),
                               !.view = v, !.bodies = @ + 1,
                               !.late = Late(t), !.stale = Stale(t, b)]

\* the values a relaxed load of offset by task t may return: any value of
\* the modification order not older than one the task has already read
Readable(t) == {v \in offsetHist : v <= task[t].view}

\* StaticPartitioner::loop_until: one turn of its while loop
StaticLoopUntil(t) ==
  /\ task[t].pc = "run"
  /\ IF task[t].curr_b < N
     THEN \E v \in Readable(t) :
            LET b == task[t].curr_b
                e == ChunkEnd(b, task[t].cs)
                r == find_if_loop(t, v, b, e)
            IN task' = [task EXCEPT ![t] =
                          IF r.pc = "run"
                          THEN [r EXCEPT !.curr_b = StaticNext(b, task[t].cs)]
                          ELSE r]
     ELSE task' = [task EXCEPT ![t].pc = "reset"]
  /\ visits' = IF task[t].curr_b < N
               THEN Visit(task[t].curr_b,
                          ChunkEnd(task[t].curr_b, task[t].cs))
               ELSE visits
  /\ UNCHANGED <<inputs, pc, W, N, w, cb, offset, offsetHist, shares, next,
                 mutex, result, resultWrites, finalizerCalls, preempted,
                 everPreempted, nAsync, nInline, cancelled>>

\* DynamicPartitioner::loop_until: next.fetch_add(chunk_size)
DynamicClaim(t) ==
  /\ task[t].pc = "claim"
  /\ next' = next + task[t].cs
  /\ task' = [task EXCEPT ![t] =
                IF next < N
                THEN [@ EXCEPT !.pc = "body", !.curr_b = next]
                ELSE [@ EXCEPT !.pc = "reset"]]
  /\ visits' = IF next < N THEN Visit(next, ChunkEnd(next, task[t].cs))
               ELSE visits
  /\ UNCHANGED <<inputs, pc, W, N, w, cb, offset, offsetHist, shares, mutex,
                 result, resultWrites, finalizerCalls, preempted,
                 everPreempted, nAsync, nInline, cancelled>>

\* (mutant) the callback's verdict ignored after a prune: the worker goes
\* on claiming chunks
DynamicBodyPruneGoesOn(t) ==
  /\ task[t].pc = "body"
  /\ \E v \in Readable(t) :
       LET b == task[t].curr_b
           e == ChunkEnd(b, task[t].cs)
           r == find_if_loop(t, v, b, e)
       IN task' = [task EXCEPT ![t] =
                     IF r.pc \in {"body", "reset"}
                     THEN [r EXCEPT !.pc = "claim"] ELSE r]
  /\ UNCHANGED <<inputs, visits, pc, W, N, w, cb, offset, offsetHist,
                 shares, next, mutex, result, resultWrites, finalizerCalls,
                 preempted, everPreempted, nAsync, nInline, cancelled>>

\* DynamicPartitioner::loop_until: the callback on the claimed chunk
DynamicBody(t) ==
  /\ task[t].pc = "body"
  /\ \E v \in Readable(t) :
       LET b == task[t].curr_b
           e == ChunkEnd(b, task[t].cs)
           r == find_if_loop(t, v, b, e)
       IN task' = [task EXCEPT ![t] =
                     IF r.pc = "body" THEN [r EXCEPT !.pc = "claim"] ELSE r]
  /\ UNCHANGED <<inputs, visits, pc, W, N, w, cb, offset, offsetHist, shares, next,
                 mutex, result, resultWrites, finalizerCalls, preempted,
                 everPreempted, nAsync, nInline, cancelled>>

\* atomic_min(offset, x): the load that starts the compare-exchange loop
AtomicMinLoad(t) ==
  /\ task[t].pc = "amin_load"
  /\ \E v \in Readable(t) :
       task' = [task EXCEPT ![t] =
                  [@ EXCEPT !.prev = v, !.view = v,
                            !.pc = IF v > task[t].x THEN "amin_cas"
                                   ELSE "reset"]]
  /\ UNCHANGED <<inputs, visits, pc, W, N, w, cb, offset, offsetHist, shares, next,
                 mutex, result, resultWrites, finalizerCalls, preempted,
                 everPreempted, nAsync, nInline, cancelled>>

\* atomic_min(offset, x): one compare_exchange; a failure reloads prev
AtomicMinCas(t) ==
  /\ task[t].pc = "amin_cas"
  /\ IF offset = task[t].prev
     THEN /\ offset' = task[t].x
          /\ offsetHist' = offsetHist \cup {task[t].x}
          /\ task' = [task EXCEPT ![t] =
                        [@ EXCEPT !.pc = "reset", !.view = task[t].x]]
     ELSE /\ task' = [task EXCEPT ![t] =
                        [@ EXCEPT !.prev = offset, !.view = offset,
                                  !.pc = IF offset > task[t].x
                                         THEN "amin_cas" ELSE "reset"]]
          /\ UNCHANGED <<offset, offsetHist>>
  /\ UNCHANGED <<inputs, visits, pc, W, N, w, cb, shares, next, mutex, result,
                 resultWrites, finalizerCalls, preempted, everPreempted,
                 nAsync, nInline, cancelled>>

\* (mutant) the deleter run by every release of a share
ReleaseShareEvery ==
  /\ shares' = shares - 1
  /\ result' = offset
  /\ resultWrites' = resultWrites + 1
  /\ finalizerCalls' = finalizerCalls + 1

\* the deleter of the shared offset: result = std::next(beg, p->load())
\* runs when the use count drops to zero
ReleaseShare ==
  /\ shares' = shares - 1
  /\ IF shares = 1
     THEN /\ result' = offset
          /\ resultWrites' = resultWrites + 1
          /\ finalizerCalls' = finalizerCalls + 1
     ELSE UNCHANGED <<result, resultWrites, finalizerCalls>>

\* offset.reset() at the end of a sub-task
FindReset(t) ==
  /\ task[t].pc = "reset"
  /\ ReleaseShare
  /\ task' = [task EXCEPT ![t].pc = "done"]
  /\ UNCHANGED <<inputs, visits, pc, W, N, w, cb, offset, offsetHist, next, mutex,
                 preempted, everPreempted, nAsync, nInline, cancelled>>

\* the inline task() has returned and the spawn loop has ended: the closure's
\* own offset goes out of scope
FindLeave ==
  /\ pc = "inline"
  /\ task[w].pc = "done"
  /\ ReleaseShare
  /\ pc' = "join"
  /\ UNCHANGED <<inputs, visits, W, N, w, cb, offset, offsetHist, next, mutex,
                 preempted, everPreempted, nAsync, nInline, task, cancelled>>

\* ~PreemptionGuard: the node resumes once every spawned sub-task has ended
GuardExit ==
  /\ pc = "join"
  /\ \A t \in Tasks : task[t].pc \in {"none", "done", "thrown"}
  /\ preempted' = FALSE
  /\ pc' = "done"
  /\ UNCHANGED <<inputs, visits, W, N, w, cb, offset, offsetHist, shares, next,
                 mutex, result, resultWrites, finalizerCalls, everPreempted,
                 nAsync, nInline, task, cancelled>>

FindTask(t) ==
  \/ StaticLoopUntil(t)
  \/ DynamicClaim(t)
  \/ DynamicBody(t)
  \/ AtomicMinLoad(t)
  \/ AtomicMinCas(t)
  \/ FindReset(t)

FindStep ==
  \/ FindSerial
  \/ FindParallel
  \/ FindSpawnStatic
  \/ FindSpawnDynamic
  \/ FindLeave
  \/ \E t \in Tasks : FindTask(t)

\* ------------------------------------------------------------------------
\* make_min_element_task / make_max_element_task
\* ------------------------------------------------------------------------
\* the user comparator: operator<
comp(a, b) == a < b

\* (mutant) the extremum replaced on a tie as well (<= for <)
BeatsNonStrict(new, old) ==
  IF algo = "min_element" THEN ~comp(Elem(old), Elem(new))
  ELSE ~comp(Elem(new), Elem(old))

\* position new replaces position old as the extremum: comp(*new, *old) for
\* min_element, comp(*old, *new) for max_element
Beats(new, old) ==
  IF algo = "min_element" THEN comp(Elem(new), Elem(old))
  ELSE comp(Elem(old), Elem(new))

\* the for loop of a reduction: positions pos, pos+1, ... (cnt of them)
\* compared against the running extremum best
RECURSIVE Reduce(_, _, _)
Reduce(best, pos, cnt) ==
  IF cnt <= 0 THEN best
  ELSE Reduce(IF Beats(pos, best) THEN pos ELSE best, pos + 1, cnt - 1)

\* std::min_element / std::max_element over the whole range
StdExtremum == IF Len(data) = 0 THEN 0 ELSE Reduce(0, 1, Len(data) - 1)

\* (mutant) the seed of max_element used for both algorithms
SeedLeft(b1, b2) == IF comp(Elem(b1), Elem(b2)) THEN b2 ELSE b1

\* the two-element seed: comp(*beg1, *beg2) ? beg1 : beg2 for min_element,
\* comp(*beg1, *beg2) ? beg2 : beg1 for max_element
Seed(b1, b2) ==
  IF algo = "min_element"
  THEN (IF comp(Elem(b1), Elem(b2)) THEN b1 ELSE b2)
  ELSE (IF comp(Elem(b1), Elem(b2)) THEN b2 ELSE b1)

MinMaxSerial ==
  /\ pc = "start"
  /\ SerialCond
  /\ result' = StdExtremum
  /\ resultWrites' = resultWrites + 1
  /\ W' = nworkers
  /\ N' = Len(data)
  /\ pc' = "done"
  /\ UNCHANGED <<inputs, visits, w, cb, offset, offsetHist, shares, next, mutex,
                 finalizerCalls, preempted, everPreempted, nAsync, nInline,
                 task, cancelled>>

\* PreemptionGuard, the clamp of W, the mutex, result = beg++ and N--
MinMaxParallel ==
  /\ pc = "start"
  /\ ~SerialCond
  /\ preempted' = TRUE
  /\ everPreempted' = TRUE
  /\ W' = IF Len(data) < nworkers THEN Len(data) ELSE nworkers
  /\ mutex' = 0
  /\ result' = 0
  /\ resultWrites' = resultWrites + 1
  /\ N' = Len(data) - 1
  /\ next' = 0
  /\ w' = 0
  /\ cb' = 0
  /\ pc' = "spawn"
  /\ UNCHANGED <<inputs, visits, offset, offsetHist, shares, finalizerCalls, nAsync,
                 nInline, task, cancelled>>

\* (mutant) the chunk size taken from the partitioner as it is, without
\* the floor of two
MinMaxSpawnStaticUnforced ==
  /\ pc = "spawn"
  /\ ptype = "STATIC"
  /\ w < W /\ cb < N
  /\ LET chunk == adjusted_chunk_size(N, W, w)
         inl == RunsInlineStatic(chunk)
     IN /\ task' = [task EXCEPT ![w + 1] =
                      [NoTask EXCEPT !.pc = "start", !.curr_b = cb,
                                     !.first = cb, !.cs = chunk,
                                     !.beg = 1]]
        /\ w' = w + 1
        /\ cb' = IF w + 1 = W THEN cb ELSE cb + chunk
        /\ nInline' = IF inl THEN nInline + 1 ELSE nInline
        /\ nAsync' = IF inl THEN nAsync ELSE nAsync + 1
        /\ pc' = IF inl THEN "inline" ELSE "spawn"
  /\ UNCHANGED <<inputs, visits, W, N, offset, offsetHist, shares, next, mutex,
                 result, resultWrites, finalizerCalls, preempted,
                 everPreempted, cancelled>>

\* one iteration of the static spawn loop, chunk size forced to at least 2
MinMaxSpawnStatic ==
  /\ pc = "spawn"
  /\ ptype = "STATIC"
  /\ w < W /\ cb < N
  /\ LET chunk == Max(2, adjusted_chunk_size(N, W, w))
         inl == RunsInlineStatic(chunk)
     IN /\ task' = [task EXCEPT ![w + 1] =
                      [NoTask EXCEPT !.pc = "start", !.curr_b = cb,
                                     !.first = cb, !.cs = chunk,
                                     !.beg = 1]]
        /\ w' = w + 1
        /\ cb' = IF w + 1 = W THEN cb ELSE cb + chunk
        /\ nInline' = IF inl THEN nInline + 1 ELSE nInline
        /\ nAsync' = IF inl THEN nAsync ELSE nAsync + 1
        /\ pc' = IF inl THEN "inline" ELSE "spawn"
  /\ UNCHANGED <<inputs, visits, W, N, offset, offsetHist, shares, next, mutex,
                 result, resultWrites, finalizerCalls, preempted,
                 everPreempted, cancelled>>

\* the static spawn loop ends without an inline call when curr_b already
\* reached N (N is 0 after the decrement)
MinMaxSpawnEnd ==
  /\ pc = "spawn"
  /\ IF ptype = "STATIC" THEN ~(w < W /\ cb < N) ELSE ~(w < W)
  /\ pc' = "join"
  /\ UNCHANGED <<inputs, visits, W, N, w, cb, offset, offsetHist, shares, next,
                 mutex, result, resultWrites, finalizerCalls, preempted,
                 everPreempted, nAsync, nInline, task, cancelled>>

\* one iteration of the dynamic spawn loop
MinMaxSpawnDynamic ==
  /\ pc = "spawn"
  /\ ptype = "DYNAMIC"
  /\ w < W
  /\ LET inl == w + 1 = W
     IN /\ task' = [task EXCEPT ![w + 1] =
                      [NoTask EXCEPT !.pc = "start", !.cs = DynChunk,
                                     !.beg = 1]]
        /\ w' = w + 1
        /\ nInline' = IF inl THEN nInline + 1 ELSE nInline
        /\ nAsync' = IF inl THEN nAsync ELSE nAsync + 1
        /\ pc' = IF inl THEN "inline" ELSE "spawn"
  /\ UNCHANGED <<inputs, visits, W, N, cb, offset, offsetHist, shares, next, mutex,
                 result, resultWrites, finalizerCalls, preempted,
                 everPreempted, cancelled>>

\* (mutant) the single-element case taken with two elements left as well
SeedFromSingleAtTwo(t, s, looppc) ==
  IF N - s <= 2
  THEN [task[t] EXCEPT !.pc = "lock1", !.curr_b = s, !.first = s,
                       !.beg = @ + s]
  ELSE [task[t] EXCEPT !.pc = looppc, !.curr_b = s, !.first = s,
                       !.best = Seed(task[t].beg + s, task[t].beg + s + 1),
                       !.beg = @ + s + 2, !.prev_e = s + 2]

\* the head of a sub-task from its start position s: std::advance(beg, s),
\* then either the single-element case or the two-element seed
SeedFrom(t, s, looppc) ==
  IF N - s = 1
  THEN [task[t] EXCEPT !.pc = "lock1", !.curr_b = s, !.first = s,
                       !.beg = @ + s]
  ELSE [task[t] EXCEPT !.pc = looppc, !.curr_b = s, !.first = s,
                       !.best = Seed(task[t].beg + s, task[t].beg + s + 1),
                       !.beg = @ + s + 2, !.prev_e = s + 2]

\* the elements the head of a sub-task reads from its start position s: *beg
\* alone, or *beg1 and *beg2 (as indices of the range left after result =
\* beg++)
SeedVisit(t, s) ==
  LET p == task[t].beg + s - 1
  IN IF N - s = 1 THEN Visit(p, p + 1) ELSE Visit(p, p + 2)

MinMaxStartStatic(t) ==
  /\ ptype = "STATIC"
  /\ task[t].pc = "start"
  /\ task' = [task EXCEPT ![t] = SeedFrom(t, task[t].curr_b, "loop")]
  /\ visits' = SeedVisit(t, task[t].curr_b)
  /\ UNCHANGED <<inputs, pc, W, N, w, cb, offset, offsetHist, shares, next,
                 mutex, result, resultWrites, finalizerCalls, preempted,
                 everPreempted, nAsync, nInline, cancelled>>

\* (mutant) the pre-reduce claiming with fetch_add(1)
MinMaxStartDynamicByOne(t) ==
  /\ ptype = "DYNAMIC"
  /\ task[t].pc = "start"
  /\ next' = next + 1
  /\ task' = [task EXCEPT ![t] =
                IF next >= N THEN [@ EXCEPT !.pc = "done"]
                ELSE SeedFrom(t, next, "claim")]
  /\ visits' = IF next >= N THEN visits ELSE SeedVisit(t, next)
  /\ UNCHANGED <<inputs, pc, W, N, w, cb, offset, offsetHist, shares, mutex,
                 result, resultWrites, finalizerCalls, preempted,
                 everPreempted, nAsync, nInline, cancelled>>

\* the pre-reduce of the dynamic sub-task: s0 = next->fetch_add(2)
MinMaxStartDynamic(t) ==
  /\ ptype = "DYNAMIC"
  /\ task[t].pc = "start"
  /\ next' = next + 2
  /\ task' = [task EXCEPT ![t] =
                IF next >= N THEN [@ EXCEPT !.pc = "done"]
                ELSE SeedFrom(t, next, "claim")]
  /\ visits' = IF next >= N THEN visits ELSE SeedVisit(t, next)
  /\ UNCHANGED <<inputs, pc, W, N, w, cb, offset, offsetHist, shares, mutex,
                 result, resultWrites, finalizerCalls, preempted,
                 everPreempted, nAsync, nInline, cancelled>>

\* the chunk callback of the static loop reduce on [b, e)
StaticReduceBody(t, b, e) ==
  LET r == task[t]
      pb == IF b > r.prev_e THEN b ELSE r.prev_e
      it == IF b > r.prev_e THEN r.beg + (b - r.prev_e) ELSE r.beg
      cnt == Max(e - pb, 0)
  IN [r EXCEPT !.best = Reduce(r.best, it, cnt), !.beg = it + cnt,
               !.prev_e = e,
               !.bodies = IF cnt > 0 THEN @ + 1 ELSE @,
               !.late = IF cnt > 0 THEN Late(t) ELSE @]

\* StaticPartitioner::loop: one turn of its while loop
StaticLoop(t) ==
  /\ task[t].pc = "loop"
  /\ IF task[t].curr_b < N
     THEN LET b == task[t].curr_b
              e == ChunkEnd(b, task[t].cs)
          IN task' = [task EXCEPT ![t] =
                        [StaticReduceBody(t, b, e) EXCEPT
                           !.curr_b = StaticNext(b, task[t].cs)]]
     ELSE task' = [task EXCEPT ![t].pc = "lock"]
  /\ visits' = IF task[t].curr_b < N
               THEN LET r == StaticReduceBody(t, task[t].curr_b,
                                              ChunkEnd(task[t].curr_b,
                                                       task[t].cs))
                        cnt == Max(r.prev_e - Max(task[t].curr_b,
                                                  task[t].prev_e), 0)
                    IN Visit(r.beg - cnt - 1, r.beg - 1)
               ELSE visits
  /\ UNCHANGED <<inputs, pc, W, N, w, cb, offset, offsetHist, shares, next,
                 mutex, result, resultWrites, finalizerCalls, preempted,
                 everPreempted, nAsync, nInline, cancelled>>

\* (mutant) the callback without prev_e = part_e
DynamicReduceBodyKeepsPrevE(t, b, e) ==
  LET r == task[t]
      it == r.beg + (b - r.prev_e)
      cnt == Max(e - b, 0)
  IN [r EXCEPT !.best = Reduce(r.best, it, cnt), !.beg = it + cnt,
               !.curr_b = b,
               !.bodies = @ + 1, !.late = Late(t)]

\* the chunk callback of the dynamic loop reduce on [b, e)
DynamicReduceBody(t, b, e) ==
  LET r == task[t]
      it == r.beg + (b - r.prev_e)
      cnt == Max(e - b, 0)
  IN [r EXCEPT !.best = Reduce(r.best, it, cnt), !.beg = it + cnt,
               !.prev_e = e, !.curr_b = b,
               !.bodies = @ + 1, !.late = Late(t)]

\* DynamicPartitioner::loop: next.fetch_add(chunk_size) and the callback
DynamicLoop(t) ==
  /\ task[t].pc = "claim"
  /\ next' = next + task[t].cs
  /\ task' = [task EXCEPT ![t] =
                IF next < N
                THEN DynamicReduceBody(t, next, ChunkEnd(next, task[t].cs))
                ELSE [@ EXCEPT !.pc = "lock"]]
  /\ visits' = IF next < N
               THEN LET r == DynamicReduceBody(t, next,
                                               ChunkEnd(next, task[t].cs))
                        cnt == Max(r.prev_e - next, 0)
                    IN Visit(r.beg - cnt - 1, r.beg - 1)
               ELSE visits
  /\ UNCHANGED <<inputs, pc, W, N, w, cb, offset, offsetHist, shares, mutex,
                 result, resultWrites, finalizerCalls, preempted,
                 everPreempted, nAsync, nInline, cancelled>>

\* (mutant) the merge section entered without waiting for the mutex
MinMaxLockNoWait(t) ==
  /\ task[t].pc \in {"lock1", "lock"}
  /\ mutex' = t
  /\ task' = [task EXCEPT ![t].pc =
                IF task[t].pc = "lock1" THEN "merge1" ELSE "merge"]
  /\ UNCHANGED <<inputs, visits, pc, W, N, w, cb, offset, offsetHist, shares, next,
                 result, resultWrites, finalizerCalls, preempted,
                 everPreempted, nAsync, nInline, cancelled>>

\* std::lock_guard<std::mutex> lock(*mutex)
MinMaxLock(t) ==
  /\ task[t].pc \in {"lock1", "lock"}
  /\ mutex = 0
  /\ mutex' = t
  /\ task' = [task EXCEPT ![t].pc =
                IF task[t].pc = "lock1" THEN "merge1" ELSE "merge"]
  /\ UNCHANGED <<inputs, visits, pc, W, N, w, cb, offset, offsetHist, shares, next,
                 result, resultWrites, finalizerCalls, preempted,
                 everPreempted, nAsync, nInline, cancelled>>

\* (mutant) the merge section left with the mutex still locked
MinMaxMergeKeepsMutex(t) ==
  /\ task[t].pc \in {"merge1", "merge"}
  /\ mutex = t
  /\ LET cand == IF task[t].pc = "merge1" THEN task[t].beg ELSE task[t].best
     IN IF Beats(cand, result)
        THEN /\ result' = cand
             /\ resultWrites' = resultWrites + 1
        ELSE UNCHANGED <<result, resultWrites>>
  /\ task' = [task EXCEPT ![t] = [@ EXCEPT !.pc = "done", !.merges = @ + 1]]
  /\ UNCHANGED <<inputs, visits, pc, W, N, w, cb, offset, offsetHist, shares, next,
                 mutex, finalizerCalls, preempted, everPreempted, nAsync,
                 nInline, cancelled>>

\* the compare-and-update of result under the mutex (single element: *beg,
\* final reduce: *smallest / *largest), then the unlock
MinMaxMerge(t) ==
  /\ task[t].pc \in {"merge1", "merge"}
  /\ mutex = t
  /\ LET cand == IF task[t].pc = "merge1" THEN task[t].beg ELSE task[t].best
     IN IF Beats(cand, result)
        THEN /\ result' = cand
             /\ resultWrites' = resultWrites + 1
        ELSE UNCHANGED <<result, resultWrites>>
  /\ mutex' = 0
  /\ task' = [task EXCEPT ![t] = [@ EXCEPT !.pc = "done", !.merges = @ + 1]]
  /\ UNCHANGED <<inputs, visits, pc, W, N, w, cb, offset, offsetHist, shares, next,
                 finalizerCalls, preempted, everPreempted, nAsync, nInline,
                 cancelled>>

\* the inline task() has returned and the spawn loop has ended
MinMaxLeave ==
  /\ pc = "inline"
  /\ task[w].pc = "done"
  /\ pc' = "join"
  /\ UNCHANGED <<inputs, visits, W, N, w, cb, offset, offsetHist, shares, next,
                 mutex, result, resultWrites, finalizerCalls, preempted,
                 everPreempted, nAsync, nInline, task, cancelled>>

MinMaxTask(t) ==
  \/ MinMaxStartStatic(t)
  \/ MinMaxStartDynamic(t)
  \/ StaticLoop(t)
  \/ DynamicLoop(t)
  \/ MinMaxLock(t)
  \/ MinMaxMerge(t)

MinMaxStep ==
  \/ MinMaxSerial
  \/ MinMaxParallel
  \/ MinMaxSpawnStatic
  \/ MinMaxSpawnDynamic
  \/ MinMaxSpawnEnd
  \/ MinMaxLeave
  \/ \E t \in Tasks : MinMaxTask(t)

\* ------------------------------------------------------------------------
\* The node model of graph.hpp
\* ------------------------------------------------------------------------
MaxNodes == 2
MaxEdges == 2
MaxSetUps == 2

Nodes == 1..MaxNodes

\* Node::PLACEHOLDER .. Node::DEPENDENT_ASYNC: the variant index of handle_t
PLACEHOLDER == 0
STATIC == 1
SUBFLOW == 2
CONDITION == 3
MULTI_CONDITION == 4
MODULE_HANDLE == 5
ASYNC == 6
DEPENDENT_ASYNC == 7
Handles == PLACEHOLDER..DEPENDENT_ASYNC

\* NSTATE: the flag bits of nstate_t; the bits below them hold the
\* conditioner count that _set_up_join_counter bumps
NSTATE_NONE == 0
NSTATE_CONDITIONED == 268435456
NSTATE_PREEMPTED == 536870912

\* x & bit # 0 and x | bit, for a one-bit mask
HasBit(x, bit) == (x \div bit) % 2 = 1
OrBit(x, bit) == IF HasBit(x, bit) THEN x ELSE x + bit

\* the nstate values a node is constructed with
InitNStates == {NSTATE_NONE, NSTATE_CONDITIONED, NSTATE_PREEMPTED}

\* node 1 carries any of the eight handle kinds, the other nodes a strong
\* kind (Static) or a weak one (Condition)
InitHandles ==
  {h \in [Nodes -> Handles] :
     \A n \in Nodes \ {1} : h[n] \in {STATIC, CONDITION}}

\* the Node constructors
InitGraph ==
  /\ handle \in InitHandles
  /\ successors = [n \in Nodes |-> <<>>]
  /\ dependents = [n \in Nodes |-> <<>>]
  /\ \E ns \in InitNStates : nstate = [n \in Nodes |-> ns]
  /\ join_counter = [n \in Nodes |-> 0]
  /\ calls = [u \in Nodes |-> [v \in Nodes |-> 0]]
  /\ nSetUps = 0

\* no node operation under way (the algorithms are checked on their own)
InitGraphIdle ==
  /\ handle = [n \in Nodes |-> STATIC]
  /\ successors = [n \in Nodes |-> <<>>]
  /\ dependents = [n \in Nodes |-> <<>>]
  /\ nstate = [n \in Nodes |-> NSTATE_NONE]
  /\ join_counter = [n \in Nodes |-> 0]
  /\ calls = [u \in Nodes |-> [v \in Nodes |-> 0]]
  /\ nSetUps = 0

\* the number of edges built so far
RECURSIVE SumLen(_, _)
SumLen(f, n) == IF n = 0 THEN 0 ELSE Len(f[n]) + SumLen(f, n - 1)
NumEdges == SumLen(successors, MaxNodes)

\* (mutant) a self-edge recorded in successors only
PrecedeNoSelfDependent(u, v) ==
  /\ NumEdges < MaxEdges
  /\ successors' = [successors EXCEPT ![u] = Append(@, v)]
  /\ dependents' = IF u = v THEN dependents
                   ELSE [dependents EXCEPT ![v] = Append(@, u)]
  /\ calls' = [calls EXCEPT ![u][v] = @ + 1]
  /\ UNCHANGED <<handle, nstate, join_counter, nSetUps, algoVars, nodeVars,
                 containerVars>>

\* Node::_precede(v) called on node u
Precede(u, v) ==
  /\ NumEdges < MaxEdges
  /\ successors' = [successors EXCEPT ![u] = Append(@, v)]
  /\ dependents' = [dependents EXCEPT ![v] = Append(@, u)]
  /\ calls' = [calls EXCEPT ![u][v] = @ + 1]
  /\ UNCHANGED <<handle, nstate, join_counter, nSetUps, algoVars, nodeVars,
                 containerVars>>

\* Node::num_successors / Node::num_dependents
num_successors(n) == Len(successors[n])
num_dependents(n) == Len(dependents[n])

\* (mutant) MultiCondition forgotten
IsConditionOnly(n) == handle[n] = CONDITION

\* Node::_is_conditioner
is_conditioner(n) == handle[n] = CONDITION \/ handle[n] = MULTI_CONDITION

\* the loops of num_weak_dependents / num_strong_dependents from index i
RECURSIVE WeakFrom(_, _)
WeakFrom(n, i) ==
  IF i > Len(dependents[n]) THEN 0
  ELSE (IF is_conditioner(dependents[n][i]) THEN 1 ELSE 0) + WeakFrom(n, i + 1)

RECURSIVE StrongFrom(_, _)
StrongFrom(n, i) ==
  IF i > Len(dependents[n]) THEN 0
  ELSE (IF ~is_conditioner(dependents[n][i]) THEN 1 ELSE 0)
         + StrongFrom(n, i + 1)

\* Node::num_weak_dependents / Node::num_strong_dependents
num_weak_dependents(n) == WeakFrom(n, 1)
num_strong_dependents(n) == StrongFrom(n, 1)

\* the loop of _set_up_join_counter over the dependents from index i, with
\* the running _nstate ns and count c
RECURSIVE SetUpFrom(_, _, _, _)
SetUpFrom(n, i, ns, c) ==
  IF i > Len(dependents[n]) THEN [nstate |-> ns, c |-> c]
  ELSE IF is_conditioner(dependents[n][i])
       THEN SetUpFrom(n, i + 1, OrBit(ns + 1, NSTATE_CONDITIONED), c)
       ELSE SetUpFrom(n, i + 1, ns, c + 1)

\* (mutant) every dependent counted into the join counter
SetUpCountingAll(n) ==
  /\ nSetUps < MaxSetUps
  /\ LET r == SetUpFrom(n, 1, nstate[n], 0)
     IN /\ nstate' = [nstate EXCEPT ![n] = r.nstate]
        /\ join_counter' = [join_counter EXCEPT ![n] = Len(dependents[n])]
  /\ nSetUps' = nSetUps + 1
  /\ UNCHANGED <<handle, successors, dependents, calls, algoVars, nodeVars,
                 containerVars>>

\* (mutant) the count added to the join counter: fetch_add for store
SetUpAdding(n) ==
  /\ nSetUps < MaxSetUps
  /\ LET r == SetUpFrom(n, 1, nstate[n], 0)
     IN /\ nstate' = [nstate EXCEPT ![n] = r.nstate]
        /\ join_counter' = [join_counter EXCEPT ![n] = @ + r.c]
  /\ nSetUps' = nSetUps + 1
  /\ UNCHANGED <<handle, successors, dependents, calls, algoVars, nodeVars,
                 containerVars>>

\* Node::_set_up_join_counter called on node n
set_up_join_counter(n) ==
  /\ nSetUps < MaxSetUps
  /\ LET r == SetUpFrom(n, 1, nstate[n], 0)
     IN /\ nstate' = [nstate EXCEPT ![n] = r.nstate]
        /\ join_counter' = [join_counter EXCEPT ![n] = r.c]
  /\ nSetUps' = nSetUps + 1
  /\ UNCHANGED <<handle, successors, dependents, calls, algoVars, nodeVars,
                 containerVars>>

\* ------------------------------------------------------------------------
\* Cancellation, the anchor guard and the exception slot of a node
\* ------------------------------------------------------------------------
MaxChain == 3
MaxRethrows == 3

\* the nodes of a parent chain: the parent of a node is a node created
\* before it, here one with a larger number
Chain == 1..MaxChain

\* ESTATE: the flag bits of estate_t
ESTATE_NONE == 0
ESTATE_CANCELLED == 536870912
ESTATE_ANCHORED == 1073741824

\* x & ~bit, for a one-bit mask
ClearBit(x, bit) == IF HasBit(x, bit) THEN x - bit ELSE x

\* the failures a body can raise
Failures == {1, 2}

\* the threads that call _rethrow_exception
MaxCallers == 2
Callers == 1..MaxCallers

\* a thread outside _rethrow_exception: n the node, e its local copy of the
\* slot, out what the call raised (0: nothing)
NoCall == [pc |-> "idle", n |-> 0, e |-> 0, out |-> 0]

\* no cancellation, guard or failure under way
InitNodeIdle ==
  /\ topology = [n \in Chain |-> 0]
  /\ parent = [n \in Chain |-> 0]
  /\ estate = [n \in Chain |-> ESTATE_NONE]
  /\ topoEstate = ESTATE_NONE
  /\ anchors = [n \in Chain |-> 0]
  /\ exception_ptr = [n \in Chain |-> 0]
  /\ raised = 0
  /\ nRethrows = 0
  /\ nCaptures = 0
  /\ nRaises = 0
  /\ callers = [c \in Callers |-> NoCall]

\* the Node constructors: topology and parent as passed in, _estate NONE
InitEstate ==
  /\ topology \in [Chain -> {0, 1}]
  /\ parent \in {f \in [Chain -> {0} \cup Chain] :
                   \A n \in Chain : f[n] = 0 \/ f[n] > n}
  /\ estate = [n \in Chain |-> ESTATE_NONE]
  /\ topoEstate = ESTATE_NONE
  /\ anchors = [n \in Chain |-> 0]
  /\ exception_ptr = [n \in Chain |-> 0]
  /\ raised = 0
  /\ nRethrows = 0
  /\ nCaptures = 0
  /\ nRaises = 0
  /\ callers = [c \in Callers |-> NoCall]

\* the executor cancels node n: _estate.fetch_or(CANCELLED)
SetCancelled(n) ==
  /\ ~HasBit(estate[n], ESTATE_CANCELLED)
  /\ estate' = [estate EXCEPT ![n] = OrBit(@, ESTATE_CANCELLED)]
  /\ UNCHANGED <<callers, topology, parent, topoEstate, anchors, exception_ptr,
                 raised, nRethrows, nCaptures, nRaises, algoVars, graphVars,
                 containerVars>>

\* the topology is cancelled: Topology::_estate.fetch_or(CANCELLED)
SetTopologyCancelled ==
  /\ ~HasBit(topoEstate, ESTATE_CANCELLED)
  /\ topoEstate' = OrBit(topoEstate, ESTATE_CANCELLED)
  /\ UNCHANGED <<callers, topology, parent, estate, anchors, exception_ptr, raised,
                 nRethrows, nCaptures, nRaises, algoVars, graphVars,
                 containerVars>>

\* (mutant) the node's own estate consulted as well
IsCancelledWithSelf(n) ==
  \/ topology[n] # 0 /\ HasBit(topoEstate, ESTATE_CANCELLED)
  \/ parent[n] # 0 /\ HasBit(estate[parent[n]], ESTATE_CANCELLED)
  \/ HasBit(estate[n], ESTATE_CANCELLED)

\* Node::_is_cancelled
is_cancelled(n) ==
  \/ topology[n] # 0 /\ HasBit(topoEstate, ESTATE_CANCELLED)
  \/ parent[n] # 0 /\ HasBit(estate[parent[n]], ESTATE_CANCELLED)

\* (mutant) the guard's constructor storing ANCHORED over the other bits
AnchorAcquireStore(n) ==
  /\ estate' = [estate EXCEPT ![n] = ESTATE_ANCHORED]
  /\ anchors' = [anchors EXCEPT ![n] = @ + 1]
  /\ UNCHANGED <<callers, topology, parent, topoEstate, exception_ptr, raised,
                 nRethrows, nCaptures, nRaises, algoVars, graphVars,
                 containerVars>>

\* AnchorGuard::AnchorGuard(node): _estate.fetch_or(ANCHORED)
AnchorAcquire(n) ==
  /\ estate' = [estate EXCEPT ![n] = OrBit(@, ESTATE_ANCHORED)]
  /\ anchors' = [anchors EXCEPT ![n] = @ + 1]
  /\ UNCHANGED <<callers, topology, parent, topoEstate, exception_ptr, raised,
                 nRethrows, nCaptures, nRaises, algoVars, graphVars,
                 containerVars>>

\* AnchorGuard::~AnchorGuard: _estate.fetch_and(~ANCHORED)
AnchorRelease(n) ==
  /\ anchors[n] > 0
  /\ estate' = [estate EXCEPT ![n] = ClearBit(@, ESTATE_ANCHORED)]
  /\ anchors' = [anchors EXCEPT ![n] = @ - 1]
  /\ UNCHANGED <<callers, topology, parent, topoEstate, exception_ptr, raised,
                 nRethrows, nCaptures, nRaises, algoVars, graphVars,
                 containerVars>>

\* nodes are cancelled and anchored, one guard per node at a time
EstateNext ==
  \/ \E n \in Chain : SetCancelled(n)
  \/ SetTopologyCancelled
  \/ \E n \in Chain : anchors[n] = 0 /\ AnchorAcquire(n)
  \/ \E n \in Chain : AnchorRelease(n)

\* the guards that can be in scope on one node at a time when guards overlap
MaxGuards == 2

\* guards on the same node overlap: nested in one thread, or held by
\* different threads
OverlapNext ==
  \/ \E n \in Chain : anchors[n] < MaxGuards /\ AnchorAcquire(n)
  \/ \E n \in Chain : AnchorRelease(n)

\* ------------------------------------------------------------------------
\* The exception slot
\* ------------------------------------------------------------------------
MaxCaptures == 3

\* a failing body: the executor stores the failure e into the empty slot of
\* node n (the first captured failure wins)
Capture(n, e) ==
  /\ nCaptures < MaxCaptures
  /\ exception_ptr[n] = 0
  /\ exception_ptr' = [exception_ptr EXCEPT ![n] = e]
  /\ nCaptures' = nCaptures + 1
  /\ UNCHANGED <<callers, topology, parent, estate, topoEstate, anchors, raised,
                 nRethrows, nRaises, algoVars, graphVars, containerVars>>

\* (mutant) the slot re-raised without being cleared
RethrowKeepingSlot(n) ==
  /\ nRethrows < MaxRethrows
  /\ nRethrows' = nRethrows + 1
  /\ IF exception_ptr[n] # 0
     THEN /\ raised' = exception_ptr[n]
          /\ nRaises' = nRaises + 1
          /\ UNCHANGED exception_ptr
     ELSE /\ raised' = 0
          /\ UNCHANGED <<exception_ptr, nRaises>>
  /\ UNCHANGED <<callers, topology, parent, estate, topoEstate, anchors, nCaptures,
                 algoVars, graphVars, containerVars>>

\* Node::_rethrow_exception called on node n
rethrow_exception(n) ==
  /\ nRethrows < MaxRethrows
  /\ nRethrows' = nRethrows + 1
  /\ IF exception_ptr[n] # 0
     THEN /\ raised' = exception_ptr[n]
          /\ nRaises' = nRaises + 1
          /\ exception_ptr' = [exception_ptr EXCEPT ![n] = 0]
     ELSE /\ raised' = 0
          /\ UNCHANGED <<exception_ptr, nRaises>>
  /\ UNCHANGED <<callers, topology, parent, estate, topoEstate, anchors, nCaptures,
                 algoVars, graphVars, containerVars>>

ExceptionNext ==
  \/ \E n \in Chain, e \in Failures : Capture(n, e)
  \/ \E n \in Chain : rethrow_exception(n)

\* ------------------------------------------------------------------------
\* _rethrow_exception called from several threads: the slot is a plain
\* std::exception_ptr, read and written without synchronisation, so the
\* statements of the calls interleave
\* ------------------------------------------------------------------------

\* what a call is left with when it hands a null pointer to
\* std::rethrow_exception (undefined)
Undefined == 0 - 1

\* the node variables a call of _rethrow_exception leaves alone
RethrowFrame ==
  UNCHANGED <<topology, parent, estate, topoEstate, anchors, nRethrows,
              nCaptures, algoVars, graphVars, containerVars>>

\* thread c enters _rethrow_exception on node n
RethrowCall(c, n) ==
  /\ callers[c].pc = "idle"
  /\ callers' = [callers EXCEPT ![c] = [NoCall EXCEPT !.pc = "test", !.n = n]]
  /\ UNCHANGED <<exception_ptr, raised, nRaises>>
  /\ RethrowFrame

\* if(_exception_ptr)
RethrowTest(c) ==
  /\ callers[c].pc = "test"
  /\ callers' = [callers EXCEPT ![c].pc =
                   IF exception_ptr[callers[c].n] # 0 THEN "copy"
                   ELSE "returned"]
  /\ UNCHANGED <<exception_ptr, raised, nRaises>>
  /\ RethrowFrame

\* auto e = _exception_ptr
RethrowCopy(c) ==
  /\ callers[c].pc = "copy"
  /\ callers' = [callers EXCEPT ![c] =
                   [@ EXCEPT !.pc = "clear",
                             !.e = exception_ptr[callers[c].n]]]
  /\ UNCHANGED <<exception_ptr, raised, nRaises>>
  /\ RethrowFrame

\* _exception_ptr = nullptr
RethrowClear(c) ==
  /\ callers[c].pc = "clear"
  /\ exception_ptr' = [exception_ptr EXCEPT ![callers[c].n] = 0]
  /\ callers' = [callers EXCEPT ![c].pc = "raise"]
  /\ UNCHANGED <<raised, nRaises>>
  /\ RethrowFrame

\* std::rethrow_exception(e)
RethrowRaise(c) ==
  /\ callers[c].pc = "raise"
  /\ LET out == IF callers[c].e # 0 THEN callers[c].e ELSE Undefined
     IN /\ callers' = [callers EXCEPT ![c] =
                         [@ EXCEPT !.pc = "returned", !.out = out]]
        /\ raised' = out
  /\ nRaises' = nRaises + 1
  /\ UNCHANGED exception_ptr
  /\ RethrowFrame

\* failures are captured while no call is under way; then the threads call
RaceNext ==
  \/ \E n \in Chain, e \in Failures :
       /\ \A c \in Callers : callers[c].pc = "idle"
       /\ Capture(n, e)
  \/ \E c \in Callers, n \in Chain : RethrowCall(c, n)
  \/ \E c \in Callers : RethrowTest(c)
  \/ \E c \in Callers : RethrowCopy(c)
  \/ \E c \in Callers : RethrowClear(c)
  \/ \E c \in Callers : RethrowRaise(c)

\* ------------------------------------------------------------------------
\* Graph: the container of the nodes
\* ------------------------------------------------------------------------
MaxAlloc == 3

\* the pointers of the nodes ever constructed
Pointers == 1..MaxAlloc

InitContainerIdle ==
  /\ graph = <<>>
  /\ nAlloc = 0
  /\ ret = 0
  /\ erased = {}

\* the set of entries of a vector
Range(q) == {q[i] : i \in 1..Len(q)}

\* Graph::_emplace_back: push_back(make_unique<Node>(...)); back().get()
emplace_back ==
  /\ nAlloc < MaxAlloc
  /\ nAlloc' = nAlloc + 1
  /\ graph' = Append(graph, nAlloc + 1)
  /\ ret' = graph'[Len(graph')]
  /\ UNCHANGED <<erased, algoVars, graphVars, nodeVars>>

\* std::remove_if(begin(), end(), p.get() == node) followed by erase to end()
RemoveIf(q, node) == SelectSeq(q, LAMBDA p : p # node)

\* (mutant) erase(find(node), end()): the entries after node go as well
EraseToEnd(node) ==
  /\ graph' = (IF node \in Range(graph)
               THEN SubSeq(graph, 1,
                           (CHOOSE i \in 1..Len(graph) : graph[i] = node) - 1)
               ELSE graph)
  /\ erased' = erased \cup (Range(graph) \ Range(graph'))
  /\ UNCHANGED <<nAlloc, ret, algoVars, graphVars, nodeVars>>

\* Graph::_erase(node)
erase(node) ==
  /\ graph' = RemoveIf(graph, node)
  /\ erased' = erased \cup (Range(graph) \ Range(graph'))
  /\ UNCHANGED <<nAlloc, ret, algoVars, graphVars, nodeVars>>

\* the builder emplaces nodes, links the nodes it holds and erases nodes
ContainerNext ==
  \/ emplace_back
  \/ \E node \in Pointers : erase(node)
  \/ \E u \in Nodes \cap Range(graph), v \in Nodes \cap Range(graph) :
       Precede(u, v)

GraphNext ==
  \/ \E u \in Nodes, v \in Nodes : Precede(u, v)
  \/ \E n \in Nodes : set_up_join_counter(n)

GraphInit == InitAlgoIdle /\ InitGraph /\ InitNodeIdle /\ InitContainerIdle

GraphSpec == GraphInit /\ [][GraphNext]_vars

\* the node model run on its own: cancellation and anchoring, the exception
\* slot, the container
EstateInit ==
  InitAlgoIdle /\ InitGraphIdle /\ InitEstate /\ InitContainerIdle

EstateSpec == EstateInit /\ [][EstateNext]_vars

OverlapSpec == EstateInit /\ [][OverlapNext]_vars

IdleInit ==
  InitAlgoIdle /\ InitGraphIdle /\ InitNodeIdle /\ InitContainerIdle

ExceptionSpec == IdleInit /\ [][ExceptionNext]_vars

ContainerSpec == IdleInit /\ [][ContainerNext]_vars

RaceSpec == IdleInit /\ [][RaceNext]_vars

\* ------------------------------------------------------------------------
\* The algorithms as scheduled by the executor
\* ------------------------------------------------------------------------
Init == InitAlgo /\ InitGraphIdle /\ InitNodeIdle /\ InitContainerIdle

Next ==
  \/ IsFind /\ FindStep
  \/ IsMinMax /\ MinMaxStep
  \/ GuardExit

Spec == Init /\ [][Next]_vars

\* the step of the closure itself: set-up, the spawn loop, leaving
Closure ==
  \/ IsFind /\ (FindSerial \/ FindParallel \/ FindSpawnStatic
                   \/ FindSpawnDynamic \/ FindLeave)
  \/ IsMinMax /\ (MinMaxSerial \/ MinMaxParallel \/ MinMaxSpawnStatic
                     \/ MinMaxSpawnDynamic \/ MinMaxSpawnEnd \/ MinMaxLeave)
  \/ GuardExit

\* a step of sub-task t
Worker(t) == (IsFind /\ FindTask(t)) \/ (IsMinMax /\ MinMaxTask(t))

\* the executor schedules every sub-task it was handed and the worker that
\* runs the closure: none of them stays runnable for ever without a step
Fairness ==
  /\ WF_vars(Closure)
  /\ \A t \in Tasks : WF_vars(Worker(t))

\* the inputs of the fair runs: which steps a sub-task takes depends on the
\* verdicts of the predicate for find and on the length of the range alone
\* for min / max, so two values suffice; find over up to MaxN - 1 elements,
\* min / max (whose first element is set apart) over up to MaxN + 1
FairFindRanges == UNION {[1..n -> {0, 1}] : n \in 0..(MaxN - 1)}

FairRanges == UNION {[1..n -> {0, 1}] : n \in 0..(MaxN + 1)}

FairInit ==
  /\ Init
  /\ data \in (IF IsFind THEN FairFindRanges ELSE FairRanges)

FairSpec == FairInit /\ [][Next]_vars /\ Fairness

\* the owning topology is cancelled while the node's sub-tasks are at work
Cancel ==
  /\ pc \in {"spawn", "inline", "join"}
  /\ ~cancelled
  /\ cancelled' = TRUE
  /\ UNCHANGED <<inputs, visits, pc, W, N, w, cb, offset, offsetHist, shares, next,
                 mutex, result, resultWrites, finalizerCalls, preempted,
                 everPreempted, nAsync, nInline, task>>

CancelNext == Next \/ Cancel

CancelSpec == Init /\ [][CancelNext]_vars

\* ------------------------------------------------------------------------
\* A user predicate that raises inside a sub-task of find
\* ------------------------------------------------------------------------

\* task t is about to run the predicate on a chunk: its load of offset can
\* return a value that does not prune the chunk
InChunk(t) ==
  /\ IsFind
  /\ \/ task[t].pc = "run" /\ task[t].curr_b < N
     \/ task[t].pc = "body"
  /\ \E v \in Readable(t) : ~(v < task[t].curr_b)

\* the predicate raises in the sub-task called inline: the exception leaves
\* loop_until and the task lambda past offset.reset(), and the unwinding of
\* the spawn loop destroys the local task object with its copy of offset
ThrowInline(t) ==
  /\ pc = "inline" /\ t = w
  /\ InChunk(t)
  /\ ReleaseShare
  /\ task' = [task EXCEPT ![t].pc = "done"]
  /\ UNCHANGED <<inputs, visits, pc, W, N, w, cb, offset, offsetHist, next, mutex,
                 preempted, everPreempted, nAsync, nInline, cancelled>>

\* the predicate raises in a sub-task run through silent_async: the task
\* lambda is left past offset.reset(); its copy of offset stays in the
\* closure the async node holds
ThrowAsync(t) ==
  /\ ~(pc = "inline" /\ t = w)
  /\ InChunk(t)
  /\ task' = [task EXCEPT ![t].pc = "thrown"]
  /\ UNCHANGED <<inputs, visits, pc, W, N, w, cb, offset, offsetHist, shares, next,
                 mutex, result, resultWrites, finalizerCalls, preempted,
                 everPreempted, nAsync, nInline, cancelled>>

\* the executor deletes the async node of task t, and with it the closure
\* and its copy of offset; the deletion comes after the join counter of the
\* enclosing node was decremented
AsyncDestroyed(t) ==
  /\ task[t].pc = "thrown"
  /\ ReleaseShare
  /\ task' = [task EXCEPT ![t].pc = "done"]
  /\ UNCHANGED <<inputs, visits, pc, W, N, w, cb, offset, offsetHist, next, mutex,
                 preempted, everPreempted, nAsync, nInline, cancelled>>

ThrowNext ==
  \/ Next
  \/ \E t \in Tasks : ThrowInline(t)
  \/ \E t \in Tasks : ThrowAsync(t)
  \/ \E t \in Tasks : AsyncDestroyed(t)

ThrowSpec == Init /\ [][ThrowNext]_vars

\* ------------------------------------------------------------------------
\* Properties of find_if / find_if_not
\* ------------------------------------------------------------------------
Done == pc = "done"
Positions == 0..(Len(data) - 1)

\* the least position whose element satisfies / falsifies the predicate,
\* or Len(data) (the iterator last) when there is none
LeastTrue ==
  IF \E i \in Positions : predicate(Elem(i))
  THEN CHOOSE i \in Positions :
         /\ predicate(Elem(i))
         /\ \A j \in Positions : predicate(Elem(j)) => i <= j
  ELSE Len(data)

LeastFalse ==
  IF \E i \in Positions : ~predicate(Elem(i))
  THEN CHOOSE i \in Positions :
         /\ ~predicate(Elem(i))
         /\ \A j \in Positions : ~predicate(Elem(j)) => i <= j
  ELSE Len(data)

\* C1: when the find_if task completes, result is first + i for the least i
\* at which the predicate is true, or last when it is true nowhere, for
\* every worker count, partitioner, chunk size and interleaving.
C1_FindIfCorrect ==
  (Done /\ algo = "find_if") => result = LeastTrue

\* a parallel find_if has completed with a hit although a peer's chunks lay
\* before the hit and more than one sub-task ran
C1_Witness ==
  /\ Done /\ algo = "find_if" /\ everPreempted
  /\ nAsync >= 1
  /\ result > 0 /\ result < Len(data)
  /\ Cardinality(offsetHist) >= 3

\* C2: when the find_if_not task completes, result is first + i for the
\* least i at which the predicate is false, or last when it is true
\* everywhere.
C2_FindIfNotCorrect ==
  (Done /\ algo = "find_if_not") => result = LeastFalse

\* a parallel find_if_not has completed on a range whose first element
\* satisfies the predicate and a later one does not
C2_Witness ==
  /\ Done /\ algo = "find_if_not" /\ everPreempted
  /\ nAsync >= 1
  /\ predicate(Elem(0))
  /\ result > 0 /\ result < Len(data)

\* ------------------------------------------------------------------------
\* Properties of min_element / max_element
\* ------------------------------------------------------------------------

\* position i holds an extremal value: no element is smaller (min_element)
\* or larger (max_element) under operator<
IsExtremal(i) ==
  IF algo = "min_element"
  THEN \A j \in Positions : ~(Elem(j) < Elem(i))
  ELSE \A j \in Positions : ~(Elem(i) < Elem(j))

\* the leftmost position holding the extremal value
LeftmostExtremum ==
  CHOOSE i \in Positions :
    IsExtremal(i) /\ \A j \in Positions : IsExtremal(j) => i <= j

ParallelPath == nworkers > 1 /\ Len(data) > csize

\* C3: when min_element completes on a non-empty range no element e has
\* comp(e, *result), and when max_element completes no element e has
\* comp(*result, e), for every worker count (clamped to the range length),
\* partitioner, chunk size and interleaving.
C3_MinMaxCorrect ==
  (Done /\ IsMinMax /\ Len(data) > 0) =>
    /\ result \in Positions
    /\ algo = "min_element" =>
         \A i \in Positions : ~comp(Elem(i), Elem(result))
    /\ algo = "max_element" =>
         \A i \in Positions : ~comp(Elem(result), Elem(i))

\* a parallel max_element over at least four elements has completed with the
\* maximum found by a sub-task at the very last position
C3_Witness ==
  /\ Done /\ algo = "max_element" /\ ParallelPath
  /\ nAsync >= 1
  /\ Len(data) >= 4
  /\ result = Len(data) - 1

C5_LeftmostTie ==
  (Done /\ IsMinMax /\ Len(data) > 0) => result = LeftmostExtremum

\* C5 (amended): with operator< the reported element is one of the tied
\* extrema; it is the leftmost one when the first element of the range is
\* among them and on the serial path, and otherwise depends on the seeds and
\* on the order of the merges.
C5_TiedExtremum ==
  (Done /\ IsMinMax /\ Len(data) > 0) =>
    /\ Elem(result) = Elem(LeftmostExtremum)
    /\ Elem(0) = Elem(LeftmostExtremum) => result = 0
    /\ ~ParallelPath => result = LeftmostExtremum

\* a parallel run has completed on a range with tied extrema and reports a
\* tied element that is not the leftmost one
C5_Witness ==
  /\ Done /\ IsMinMax /\ ParallelPath
  /\ result \in Positions
  /\ result # LeftmostExtremum
  /\ Elem(result) = Elem(LeftmostExtremum)

\* ------------------------------------------------------------------------
\* Properties of the serial early exit and of cancellation
\* ------------------------------------------------------------------------

\* what the serial standard algorithm returns
SerialAnswer ==
  IF algo = "find_if" THEN LeastTrue
  ELSE IF algo = "find_if_not" THEN LeastFalse
  ELSE IF Len(data) = 0 THEN 0
  ELSE LeftmostExtremum

\* C9: when W <= 1 or N <= part.chunk_size() (so for every empty range) the
\* serial algorithm runs inline: no sub-task is created or dispatched, the
\* node is never marked PREEMPTED, and result is written exactly once, with
\* the serial answer.
C9_SerialInline ==
  (nworkers <= 1 \/ Len(data) <= csize) =>
    /\ nAsync = 0 /\ nInline = 0
    /\ \A t \in Tasks : task[t].pc = "none"
    /\ ~preempted /\ ~everPreempted
    /\ pc \in {"start", "done"}
    /\ resultWrites = (IF Done THEN 1 ELSE 0)
    /\ Done => result = SerialAnswer

\* a serial run has completed although the executor has several workers,
\* because the non-empty range is no longer than the chunk size
C9_Witness ==
  /\ Done
  /\ nworkers > 1
  /\ Len(data) >= 1 /\ Len(data) <= csize
  /\ resultWrites = 1

\* C10 (as claimed): once CANCELLED is set, no sub-task runs the user
\* predicate or comparator on more than the one chunk that was in flight.
C10_Cooperative ==
  \A t \in Tasks : task[t].late <= 1

\* ------------------------------------------------------------------------
\* Properties of the node model
\* ------------------------------------------------------------------------

\* the number of occurrences of x in the list q
Occ(q, x) == Cardinality({i \in 1..Len(q) : q[i] = x})

\* the dependents of n whose handle is Condition or MultiCondition, and
\* those with one of the six other handle kinds
WeakDeps(n) ==
  Cardinality({i \in 1..Len(dependents[n]) :
                 handle[dependents[n][i]] \in {CONDITION, MULTI_CONDITION}})
StrongDeps(n) ==
  Cardinality({i \in 1..Len(dependents[n]) :
                 handle[dependents[n][i]] \in
                   {PLACEHOLDER, STATIC, SUBFLOW, MODULE_HANDLE, ASYNC,
                    DEPENDENT_ASYNC}})

\* C6 (as claimed): after _set_up_join_counter() on n, whatever nstate was,
\* join_counter(n) = num_strong_dependents(n) and CONDITIONED is set iff
\* num_weak_dependents(n) > 0.
C6_SetUpIff ==
  [][\A n \in Nodes :
       set_up_join_counter(n) =>
         /\ join_counter'[n] = StrongDeps(n)
         /\ HasBit(nstate'[n], NSTATE_CONDITIONED) <=> WeakDeps(n) > 0]_vars

\* C6 (amended): after _set_up_join_counter() on n, join_counter(n) =
\* num_strong_dependents(n), and CONDITIONED is set iff
\* num_weak_dependents(n) > 0 or it was set before the call (the call never
\* clears it).
C6_SetUpJoinCounter ==
  [][\A n \in Nodes :
       set_up_join_counter(n) =>
         /\ join_counter'[n] = StrongDeps(n)
         /\ HasBit(nstate'[n], NSTATE_CONDITIONED) <=>
              (WeakDeps(n) > 0 \/ HasBit(nstate[n], NSTATE_CONDITIONED))]_vars

\* node 2 (Static) has the Condition node 1 and itself as dependents and has
\* been set up from a clear nstate: join counter 1, CONDITIONED, count 1
C6_Witness ==
  /\ handle[1] = CONDITION /\ handle[2] = STATIC
  /\ Occ(dependents[2], 1) = 1 /\ Occ(dependents[2], 2) = 1
  /\ nSetUps >= 1
  /\ join_counter[2] = 1
  /\ nstate[2] = NSTATE_CONDITIONED + 1

\* C7: after any sequence of precede calls, v occurs in u.successors as often
\* as u occurs in v.dependents, and both as often as u.precede(v) was called:
\* edges are mirrored and never removed.
C7_EdgeMirror ==
  \A u \in Nodes, v \in Nodes :
    /\ Occ(successors[u], v) = Occ(dependents[v], u)
    /\ Occ(successors[u], v) = calls[u][v]

\* a self-edge has been added twice to node 1
C7_Witness ==
  /\ calls[1][1] = 2
  /\ Occ(successors[1], 1) = 2

\* C8: for every node, num_strong_dependents + num_weak_dependents =
\* num_dependents, a dependent being weak exactly when its handle is
\* Condition or MultiCondition.
C8_StrongWeakSum ==
  \A n \in Nodes :
    /\ num_strong_dependents(n) + num_weak_dependents(n) = num_dependents(n)
    /\ num_weak_dependents(n) = WeakDeps(n)
    /\ num_strong_dependents(n) = StrongDeps(n)

\* node 2 has a MultiCondition dependent and a Static one
C8_Witness ==
  /\ handle[1] = MULTI_CONDITION /\ handle[2] = STATIC
  /\ Occ(dependents[2], 1) = 1 /\ Occ(dependents[2], 2) = 1
  /\ num_weak_dependents(2) = 1 /\ num_strong_dependents(2) = 1

\* ------------------------------------------------------------------------
\* Properties of cancellation, the exception slot, the anchor guard and the
\* container
\* ------------------------------------------------------------------------

\* the estate words _is_cancelled is to consult for node n: the topology's
\* when n has one, the direct parent's when n has one
Consulted(n) ==
  (IF topology[n] # 0 THEN {topoEstate} ELSE {})
    \cup (IF parent[n] # 0 THEN {estate[parent[n]]} ELSE {})

\* C11: _is_cancelled() is true iff the node's topology is non-null and has
\* CANCELLED or its direct parent is non-null and has CANCELLED; CANCELLED
\* on the node itself or on an ancestor above the parent does not count,
\* and with both pointers null it is false.
C11_IsCancelled ==
  \A n \in Chain :
    /\ is_cancelled(n) <=>
         \E word \in Consulted(n) : HasBit(word, ESTATE_CANCELLED)
    /\ (topology[n] = 0 /\ parent[n] = 0) => ~is_cancelled(n)

\* node 1 and its grandparent 3 are cancelled, its parent 2 is not and it
\* has no topology: node 1 does not report cancellation, node 2 does
C11_Witness ==
  /\ topology[1] = 0 /\ parent[1] = 2 /\ parent[2] = 3
  /\ HasBit(estate[1], ESTATE_CANCELLED)
  /\ HasBit(estate[3], ESTATE_CANCELLED)
  /\ ~HasBit(estate[2], ESTATE_CANCELLED)
  /\ HasBit(estate[2], ESTATE_ANCHORED)
  /\ ~is_cancelled(1)
  /\ is_cancelled(2)

\* the slots that hold a failure
FullSlots == {n \in Chain : exception_ptr[n] # 0}

\* C12: _rethrow_exception() on a node whose slot holds a failure re-raises
\* exactly that failure and leaves the slot empty; on an empty slot it
\* raises nothing and changes nothing; so every captured failure is
\* re-raised at most once, by the first call that follows its capture.
C12_RethrowOnce ==
  /\ [][\A n \in Chain :
         rethrow_exception(n) =>
           IF exception_ptr[n] # 0
           THEN /\ raised' = exception_ptr[n]
                /\ exception_ptr' = [exception_ptr EXCEPT ![n] = 0]
           ELSE /\ raised' = 0
                /\ exception_ptr' = exception_ptr]_vars
  /\ [](nRaises + Cardinality(FullSlots) = nCaptures)

\* one failure was captured and three calls followed: the first re-raised
\* it, the last raised nothing
C12_Witness ==
  /\ nCaptures = 1
  /\ nRethrows = 3
  /\ nRaises = 1
  /\ raised = 0
  /\ FullSlots = {}

\* C14: with one AnchorGuard on a node at a time, ANCHORED is set exactly
\* while the guard lives; acquiring and releasing the guard change no other
\* bit of the estate, and a CANCELLED bit, whenever it was set, is never
\* lost.
C14_AnchorGuard ==
  /\ [](\A n \in Chain :
          HasBit(estate[n], ESTATE_ANCHORED) <=> anchors[n] = 1)
  /\ [][\A n \in Chain :
          /\ HasBit(estate[n], ESTATE_CANCELLED) =>
               HasBit(estate'[n], ESTATE_CANCELLED)
          /\ (AnchorAcquire(n) \/ AnchorRelease(n)) =>
               \A m \in Chain :
                 ClearBit(estate'[m], ESTATE_ANCHORED) =
                   ClearBit(estate[m], ESTATE_ANCHORED)]_vars

\* node 1 was cancelled and is anchored by a live guard, node 2 was
\* cancelled and its guard is gone
C14_Witness ==
  /\ anchors[1] = 1
  /\ estate[1] = ESTATE_CANCELLED + ESTATE_ANCHORED
  /\ anchors[2] = 0
  /\ estate[2] = ESTATE_CANCELLED

\* the entries of the vector q other than node, in the order of q
Without(q, node) ==
  [i \in 1..Cardinality({j \in 1..Len(q) : q[j] # node}) |->
     q[CHOOSE j \in 1..Len(q) :
         /\ q[j] # node
         /\ Cardinality({k \in 1..j : q[k] # node}) = i]]

\* C15: the graph holds exactly the emplaced nodes that were not erased,
\* each once, in insertion order; _emplace_back returns the pointer of the
\* newly appended last node; _erase(p) removes exactly the entry equal to p,
\* is a no-op when p is absent, and changes neither the other entries, their
\* order, nor any node's successors / dependents.
C15_Container ==
  /\ [](/\ Range(graph) = (1..nAlloc) \ erased
        /\ \A i \in 1..Len(graph), j \in 1..Len(graph) :
             i < j => graph[i] < graph[j])
  /\ [][/\ emplace_back =>
             /\ ret' = nAlloc + 1
             /\ Len(graph') = Len(graph) + 1
             /\ graph'[Len(graph')] = ret'
             /\ SubSeq(graph', 1, Len(graph)) = graph
        /\ \A node \in Pointers :
             erase(node) =>
               /\ graph' = Without(graph, node)
               /\ node \notin Range(graph) => graph' = graph
               /\ successors' = successors
               /\ dependents' = dependents]_vars

\* three nodes were emplaced and the middle one, which node 1 precedes, was
\* erased: the two others remain in order and node 1 still lists node 2
C15_Witness ==
  /\ graph = <<1, 3>>
  /\ erased = {2}
  /\ ret = 3
  /\ successors[1] = <<2>>
  /\ dependents[2] = <<1>>

\* ------------------------------------------------------------------------
\* Properties of the shared handle of find
\* ------------------------------------------------------------------------

\* C13 (as claimed): when the predicate raises inside a sub-task of a
\* parallel find, the sub-task still releases its share before the
\* enclosing node completes, so the finalizer has run exactly once by then.
C13_ReleasedOnThrow ==
  (Done /\ IsFind /\ ParallelPath) =>
    /\ \A t \in Tasks : task[t].pc # "thrown"
    /\ finalizerCalls = 1

\* the sub-tasks that exist and have not ended
Unreleased == {t \in Tasks : task[t].pc \notin {"none", "done"}}

\* C16: on the parallel path of find_if / find_if_not the closure holds a
\* share of the handle until its spawn loop has ended and every sub-task
\* holds one until it ends, so result is not written while a sub-task is
\* unreleased or still to be created; the finalizer fires on the last
\* release only and writes first + the least value offset ever held.
C16_ResultNotEarly ==
  (IsFind /\ ParallelPath) =>
    /\ shares = (IF pc \in {"spawn", "inline"} THEN 1 ELSE 0)
                  + Cardinality(Unreleased)
    /\ resultWrites > 0 =>
         /\ pc \in {"join", "done"}
         /\ Unreleased = {}
         /\ shares = 0
         /\ finalizerCalls = 1 /\ resultWrites = 1
         /\ result = offset
         /\ \A v \in offsetHist : result <= v

\* the closure has left its spawn loop and dropped its share while a
\* dispatched sub-task is still inside atomic_min: result is unwritten
C16_Witness ==
  /\ IsFind /\ ParallelPath
  /\ pc = "join"
  /\ \E t \in Tasks : task[t].pc = "amin_cas"
  /\ shares = 1
  /\ resultWrites = 0

\* C17 (as claimed): on the parallel path of each algorithm exactly W - 1
\* sub-tasks go through silent_async and exactly one, the last one created,
\* runs inline, for both partitioner types.
C17_SpawnCounts ==
  (Done /\ ParallelPath) => (nAsync = W - 1 /\ nInline = 1)

\* C17 (amended): W is the worker count clamped to the length of the range;
\* the dynamic spawn loop creates W sub-tasks, W - 1 through silent_async
\* and the last one inline; the static spawn loop stops as soon as the
\* chunks handed out cover [0, N), so it creates k <= W sub-tasks, k - 1
\* through silent_async and the last one inline (k = W for find with the
\* default chunk size, k = 0 for min/max over a single element).
C17_SpawnCountsStatic ==
  ParallelPath =>
    /\ pc = "spawn" => nInline = 0
    /\ pc # "start" =>
         /\ W = Min(nworkers, Len(data))
         /\ nAsync + nInline = w
         /\ w <= W
    /\ Done =>
         /\ nInline = (IF w > 0 THEN 1 ELSE 0)
         /\ ptype = "DYNAMIC" => w = W
         /\ (ptype = "STATIC" /\ IsFind /\ csize = 0) => w = W
         /\ (ptype = "STATIC" /\ w < W) => cb >= N
         /\ (w = 0) => (IsMinMax /\ Len(data) = 1)

\* a parallel static min_element has completed with a single sub-task, run
\* inline, although two workers were available after the clamp
C17_Witness ==
  /\ Done /\ ParallelPath /\ algo = "min_element" /\ ptype = "STATIC"
  /\ W = 2
  /\ nAsync = 0 /\ nInline = 1

\* the least index at which the match condition holds, or N
LeastMatch == IF algo = "find_if" THEN LeastTrue ELSE LeastFalse

\* C18: on the parallel path of find the shared offset is N or an index at
\* which the match condition holds, it is never above a value it held
\* before, it is never below the least matching index, and once an
\* atomic_min(offset, x) has returned offset is at most x, whatever the
\* concurrent atomic_min calls did.
C18_OffsetInvariant ==
  (IsFind /\ ParallelPath /\ pc # "start") =>
    /\ offset = N \/ (offset \in Positions /\ Matches(Elem(offset)))
    /\ offset >= LeastMatch
    /\ offset \in offsetHist
    /\ \A v \in offsetHist : offset <= v
    /\ \A t \in Tasks :
         (task[t].x # NoIndex /\ task[t].pc \in {"reset", "done"}) =>
           offset <= task[t].x

\* two sub-tasks have found a match each and race in atomic_min: the one
\* holding the smaller index has loaded a value the other has since replaced
C18_Witness ==
  /\ IsFind /\ ParallelPath
  /\ \E t \in Tasks :
       /\ task[t].pc = "amin_cas"
       /\ task[t].prev # offset
       /\ task[t].x < offset
       /\ offset < N

\* C19: a worker that prunes at a chunk beginning at curr_b has read an
\* index below curr_b at which the match condition holds; it stops for
\* good, and every chunk it would still receive begins above that index; a
\* relaxed load that returns a stale, larger value makes the worker scan
\* the chunk, and the final result is the serial answer all the same.
C19_PruneSafe ==
  IsFind =>
    /\ \A t \in Tasks :
         task[t].pruned = 1 =>
           /\ task[t].pc \in {"reset", "done"}
           /\ task[t].view < task[t].curr_b
           /\ Matches(Elem(task[t].view))
           /\ LeastMatch <= task[t].view
           /\ ptype = "DYNAMIC" => next > task[t].view
           /\ ptype = "STATIC" =>
                StaticNext(task[t].curr_b, task[t].cs) > task[t].view
    /\ Done => result = LeastMatch

\* a dynamic worker scanned the chunk at index 1 on a stale value of offset
\* (index 0 had been published), then claimed the chunk at index 2 and
\* pruned it; the run completed with the answer 0
C19_Witness ==
  /\ Done /\ IsFind /\ ptype = "DYNAMIC"
  /\ result = 0
  /\ \E t \in Tasks :
       /\ task[t].stale = 1
       /\ task[t].pruned = 1
       /\ task[t].bodies = 1
       /\ task[t].curr_b = 2
       /\ task[t].view = 0

\* C20: with the dynamic partitioner no index of [0, N) is claimed by two
\* workers; in min/max, where each worker claims a two-element seed with
\* fetch_add(2) and then chunks from the same cursor, every index of the
\* reduced range is examined by exactly one worker, and a worker whose
\* seed claim is >= N returns without reading an element or touching
\* result.
C20_DynamicDisjoint ==
  /\ []((ptype = "DYNAMIC" /\ ParallelPath) =>
          /\ \A i \in DOMAIN visits :
               visits[i] = (IF i < Min(next, N) /\ pc # "start" THEN 1 ELSE 0)
          /\ (IsMinMax /\ Done) =>
               \A i \in DOMAIN visits : visits[i] = (IF i < N THEN 1 ELSE 0))
  /\ [][\A t \in Tasks :
          (IsMinMax /\ MinMaxStartDynamic(t) /\ next >= N) =>
            /\ task'[t].pc = "done"
            /\ visits' = visits
            /\ result' = result /\ resultWrites' = resultWrites
            /\ mutex' = mutex]_vars

\* a dynamic min_element over three elements has completed: one worker took
\* the seed at indices 0 and 1 of the reduced range, the other found the
\* cursor at N and returned at once, its iterator never advanced
C20_Witness ==
  /\ Done /\ algo = "min_element" /\ ptype = "DYNAMIC" /\ ParallelPath
  /\ Len(data) = 3
  /\ nAsync = 1
  /\ \A t \in Tasks : task[t].pc = "done"
  /\ \E t \in Tasks : task[t].prev_e = 2
  /\ \E t \in Tasks : task[t].prev_e = 0 /\ task[t].beg = 1
  /\ visits = [i \in 0..2 |-> IF i < 2 THEN 1 ELSE 0]

\* ------------------------------------------------------------------------
\* The slices of the static partitioner
\* ------------------------------------------------------------------------

\* the sub-tasks the spawn loop has created
Spawned == {t \in Tasks : task[t].pc # "none"}

\* index i lies in a chunk the static partitioner hands to sub-task t: the
\* chunks of size cs that begin at first, first + W * cs, ...
InSlice(t, i) ==
  /\ task[t].first <= i
  /\ (i - task[t].first) % (W * task[t].cs) < task[t].cs

\* the indices of [0, N) handed to sub-task t
Owned(t) == {i \in 0..(N - 1) : InSlice(t, i)}

\* the sub-tasks whose slices hold index i
Owners(i) == {t \in Spawned : InSlice(t, i)}

\* the spawn loop has ended
SpawnEnded == pc \in {"inline", "join", "done"}

\* C21: with the static partitioner the slices of the sub-tasks the spawn
\* loop creates are pairwise disjoint and, once the loop has ended, their
\* union is [0, N), for every N, W and chunk size; no index is handed out
\* twice, and in min/max (chunk size at least 2, N decremented after the
\* clamp of W) every index of the reduced range is examined exactly once.
C21_StaticCover ==
  (ptype = "STATIC" /\ ParallelPath /\ pc # "start") =>
    /\ \A i \in 0..(N - 1) :
         LET owners == Cardinality(Owners(i))
         IN /\ owners <= 1
            /\ SpawnEnded => owners = 1
            /\ visits[i] <= owners
            /\ (IsMinMax /\ Done) => visits[i] = 1
    /\ \A i \in DOMAIN visits : i >= N => visits[i] = 0
    /\ IsMinMax => \A t \in Spawned : task[t].cs >= 2

\* a static max_element over six elements with two workers and an explicit
\* chunk size of 1 (forced to 2) has completed: the first worker came back
\* for a second chunk at index 4 of the reduced range
C21_Witness ==
  /\ Done /\ algo = "max_element" /\ ptype = "STATIC" /\ ParallelPath
  /\ Len(data) = 6 /\ csize = 1 /\ W = 2
  /\ Owned(1) = {0, 1, 4}
  /\ Owned(2) = {2, 3}
  /\ \A i \in 0..4 : visits[i] = 1

\* ------------------------------------------------------------------------
\* The seed of a min / max worker
\* ------------------------------------------------------------------------

\* sub-task t has taken the two-element seed (prev_e starts at start + 2)
Seeded(t) == task[t].prev_e >= 2

\* sub-task t is in the single-element case
Single(t) == task[t].pc \in {"lock1", "merge1"}

\* C22: in parallel min_element / max_element a worker that seeds from two
\* elements reads positions start and start + 1 of the reduced range, both
\* below N; a worker with N - start = 1 takes no seed and does one compare
\* against result under the mutex; every chunk the reduce loop receives
\* ends at start + 2 or later; no iterator of a worker passes last and no
\* extremum stands at or past last.
C22_SeedInRange ==
  (IsMinMax /\ ParallelPath) =>
    \A t \in Spawned :
      /\ Seeded(t) =>
           /\ task[t].first + 1 < N
           /\ task[t].prev_e >= task[t].first + 2
           /\ task[t].prev_e <= N
           /\ task[t].best >= 1 /\ task[t].best < Len(data)
           /\ task[t].pc \notin {"start", "lock1", "merge1"}
      /\ Single(t) =>
           /\ N - task[t].first = 1
           /\ ~Seeded(t)
           /\ task[t].beg = task[t].first + 1
           /\ task[t].pc = "merge1" => mutex = t
      /\ (task[t].pc # "start" /\ N - task[t].first = 1) => ~Seeded(t)
      /\ task[t].beg <= Len(data)

\* a dynamic min_element over four elements has completed: one worker
\* seeded from the indices 0 and 1 of the reduced range, the other started
\* at index 2 with one element left and compared it under the mutex
C22_Witness ==
  /\ Done /\ algo = "min_element" /\ ptype = "DYNAMIC" /\ ParallelPath
  /\ Len(data) = 4 /\ N = 3
  /\ \E t \in Tasks :
       /\ Seeded(t) /\ task[t].first = 0 /\ task[t].prev_e = 2
       /\ task[t].beg = 3
  /\ \E t \in Tasks :
       /\ ~Seeded(t) /\ task[t].first = 2 /\ task[t].beg = 3
  /\ result = 3

\* ------------------------------------------------------------------------
\* The merge of min / max
\* ------------------------------------------------------------------------

\* the sub-tasks inside the merge section
Merging == {t \in Tasks : task[t].pc \in {"merge1", "merge"}}

\* C23: in parallel min_element / max_element the mutex is held by exactly
\* the worker inside the merge section, so at most one worker is in it;
\* each worker merges at most once; every write to result after result =
\* beg++ is made by the holder of the mutex as it leaves the merge section
\* and puts in an element that strictly beats the old one under comp.
C23_MergeUnderMutex ==
  /\ []((IsMinMax /\ ParallelPath) =>
          /\ Cardinality(Merging) <= 1
          /\ \A t \in Tasks : (t \in Merging) <=> (mutex = t)
          /\ \A t \in Tasks : task[t].merges <= 1
          /\ \A t \in Tasks : task[t].merges = 1 => task[t].pc = "done")
  /\ [][(IsMinMax /\ pc # "start"
           /\ (result' # result \/ resultWrites' # resultWrites)) =>
            /\ mutex \in Merging
            /\ task'[mutex].pc = "done"
            /\ task'[mutex].merges = 1
            /\ mutex' = 0
            /\ result' \in {task[mutex].beg, task[mutex].best}
            /\ Beats(result', result)
            /\ resultWrites' = resultWrites + 1]_vars

\* a worker is inside the merge section with a local extremum that beats
\* result, while its peer waits for the mutex with a local extremum that
\* beats result too
C23_Witness ==
  /\ IsMinMax /\ ParallelPath
  /\ \E t \in Merging : \E u \in Tasks :
       /\ task[t].pc = "merge"
       /\ Beats(task[t].best, result)
       /\ task[u].pc = "lock"
       /\ Beats(task[u].best, result)

\* ------------------------------------------------------------------------
\* Termination
\* ------------------------------------------------------------------------

\* every sub-task has run to its end (find: past offset.reset())
Released == \A t \in Tasks : task[t].pc \in {"none", "done"}

\* C24: under fair scheduling every sub-task of a parallel find / min / max
\* reaches its end (every chunk loop and every compare-exchange loop of
\* atomic_min ends), and the enclosing node completes with result written
\* and, for find, the finalizer run once.
C24_Terminates ==
  <>[](/\ Done /\ Released /\ ~preempted /\ mutex = 0
       /\ result # NoResult
       /\ IsFind => shares = 0
       /\ (IsFind /\ ParallelPath) => finalizerCalls = 1)

\* a parallel find over two matching elements has completed: both sub-tasks
\* went into atomic_min, and the one holding index 1 left its loop on
\* reading the index 0 of its peer
C24_Witness ==
  /\ Done /\ Released /\ IsFind /\ ParallelPath
  /\ finalizerCalls = 1 /\ result = 0
  /\ \E t \in Tasks, u \in Tasks :
       /\ task[t].x = 1 /\ task[t].prev = 0
       /\ task[u].x = 0 /\ task[u].prev = N

\* ------------------------------------------------------------------------
\* Concurrent calls of _rethrow_exception
\* ------------------------------------------------------------------------

\* the calls on node n that have returned after raising
Raisers(n) ==
  {c \in Callers :
     callers[c].pc = "returned" /\ callers[c].n = n /\ callers[c].out # 0}

\* C25 (as claimed): _rethrow_exception takes the slot atomically: of the
\* calls made concurrently on a node that holds one captured failure, one
\* re-raises it and the others raise nothing, so no more failures are
\* re-raised from a node than were captured into it.
C25_AtomicTake ==
  /\ nRaises <= nCaptures
  /\ \A n \in Chain : Cardinality(Raisers(n)) <= 1
  /\ \A c \in Callers : callers[c].out # Undefined

\* ------------------------------------------------------------------------
\* Overlapping anchor guards
\* ------------------------------------------------------------------------

\* C26 (as claimed): while at least one AnchorGuard on a node is in scope,
\* two overlapping guards included, the ANCHORED bit of the node is set; it
\* is cleared only by the release of the last guard.
C26_AnchoredWhileGuarded ==
  \A n \in Chain :
    HasBit(estate[n], ESTATE_ANCHORED) <=> anchors[n] > 0

\* ------------------------------------------------------------------------
\* Repeated join-counter set-up
\* ------------------------------------------------------------------------

\* the conditioner count held in the bits of nstate below the flags
Count(ns) == ns % NSTATE_CONDITIONED

\* node n is as a first _set_up_join_counter() is claimed to leave it: the
\* join counter at the number of strong dependents, the count at the number
\* of weak ones, CONDITIONED set if there is a weak one
AsSetUp(n) ==
  /\ nSetUps >= 1
  /\ join_counter[n] = StrongDeps(n)
  /\ Count(nstate[n]) = WeakDeps(n)
  /\ WeakDeps(n) > 0 => HasBit(nstate[n], NSTATE_CONDITIONED)

\* C27 (as claimed): a second _set_up_join_counter() on an unchanged node
\* leaves join_counter, the CONDITIONED and PREEMPTED flags and the
\* conditioner count as the first call left them, the count staying equal
\* to num_weak_dependents(n).
C27_SetUpIdempotent ==
  [][\A n \in Nodes :
       (set_up_join_counter(n) /\ AsSetUp(n)) =>
         /\ join_counter'[n] = join_counter[n]
         /\ nstate'[n] = nstate[n]
         /\ Count(nstate'[n]) = WeakDeps(n)]_vars

\* C27 (amended): a second _set_up_join_counter() on an unchanged node
\* leaves join_counter and the CONDITIONED and PREEMPTED flags as the first
\* call left them and adds num_weak_dependents(n) to the conditioner count
\* once more.
C27_SetUpAddsCount ==
  [][\A n \in Nodes :
       (set_up_join_counter(n) /\ AsSetUp(n)) =>
         /\ join_counter'[n] = join_counter[n]
         /\ HasBit(nstate'[n], NSTATE_CONDITIONED)
              <=> HasBit(nstate[n], NSTATE_CONDITIONED)
         /\ HasBit(nstate'[n], NSTATE_PREEMPTED)
              <=> HasBit(nstate[n], NSTATE_PREEMPTED)
         /\ Count(nstate'[n]) = Count(nstate[n]) + WeakDeps(n)
         /\ nstate'[n] = nstate[n] + WeakDeps(n)]_vars

\* node 2, constructed PREEMPTED, has the Condition node 1 and itself as
\* dependents and was set up twice: join counter 1, both flags, count 2
C27_Witness ==
  /\ handle[1] = CONDITION /\ handle[2] = STATIC
  /\ Occ(dependents[2], 1) = 1 /\ Occ(dependents[2], 2) = 1
  /\ nSetUps = 2
  /\ join_counter[2] = 1
  /\ nstate[2] = NSTATE_PREEMPTED + NSTATE_CONDITIONED + 2
  /\ nstate[1] = NSTATE_PREEMPTED /\ join_counter[1] = 0

\* ------------------------------------------------------------------------
\* The iterator carried across the chunks of a worker
\* ------------------------------------------------------------------------

\* C28: in the chunk callbacks of the four algorithms the begin of a chunk
\* is never below the carried prev_e where the iterator is advanced by
\* begin - prev_e, and the iterator stands at the end of the chunk scanned
\* last (prev_e), so that the advance puts it at begin: for the consecutive
\* chunks of a worker under both partitioners, and for the first chunk of a
\* min / max worker, whose prev_e starts at start + 2 (the static callback
\* advances only when begin > prev_e and starts from prev_e otherwise).
C28_AdvanceInRange ==
  ParallelPath =>
    \A t \in Spawned :
      /\ IsFind =>
           /\ (task[t].pc = "run" /\ task[t].curr_b < N) =>
                task[t].curr_b >= task[t].prev_e
           /\ task[t].pc = "body" => task[t].curr_b >= task[t].prev_e
           /\ task[t].pc = "claim" => next >= task[t].prev_e
           /\ task[t].x = NoIndex => task[t].beg = task[t].prev_e
           /\ task[t].pc \in {"amin_load", "amin_cas"} =>
                /\ task[t].beg = task[t].x + 1
                /\ task[t].x >= task[t].prev_e
      /\ (IsMinMax /\ Seeded(t)) =>
           /\ task[t].beg = task[t].prev_e + 1
           /\ (task[t].pc = "loop" /\ task[t].curr_b < N) =>
                \/ task[t].curr_b >= task[t].prev_e
                \/ /\ task[t].curr_b = task[t].first
                   /\ task[t].prev_e = task[t].first + 2
           /\ task[t].pc = "claim" => next >= task[t].prev_e

\* a static find worker with chunk size 1 and a peer has scanned its second
\* chunk, [2, 3): its iterator, left at 1 by the first chunk, was advanced
\* by 2 - 1 and stands at 3
C28_Witness ==
  /\ IsFind /\ ptype = "STATIC" /\ csize = 1 /\ W = 2 /\ N = 3
  /\ task[1].bodies = 2
  /\ task[1].x = NoIndex
  /\ task[1].prev_e = 3 /\ task[1].beg = 3
  /\ task[1].curr_b = 4

====
